---- MODULE Spec2Model ----
(***************************************************************************)
(* Demand-Forecasting backend: the relational alert store and its HTTP     *)
(* routes, the scheduled background jobs, and the data-collection          *)
(* subgraph of the category pipeline.                                      *)
(*                                                                         *)
(* Optional values (Python None / a value) are sequences of length 0 / 1.  *)
(* Time is counted in days.  Identifiers (UUIDs) are fresh integers.       *)
(***************************************************************************)
EXTENDS Integers, Sequences, FiniteSets, TLC

VARIABLES
    alerts,      \* the alerts table: id -> row
    next_id,     \* rows inserted so far; generated ids are never reused
    now,         \* the clock (NOW() of the store, utcnow() of the app)
    ret,         \* the response of the last handler that ran
    db,          \* worker process -> the _db attribute of its forecast task
    task,        \* the run_scheduled_forecast request in the queue
    jobs,        \* job ids drawn so far (uuid4 never repeats)
    forecasts,   \* the forecasts table, in insertion order
    actions,     \* the action recommendations table, in insertion order
    gState,      \* the channels of the data-collection subgraph (its State)
    gStep,       \* the superstep in progress; 0 when no invocation runs
    gTodo,       \* the nodes of the superstep that have not finished
    gRan,        \* the nodes of the superstep that have finished
    gWrites,     \* the updates returned in the superstep, not yet applied
    gLog,        \* the nodes finished in this invocation, in order
    gInvocations, \* invocations of the subgraph started so far
    legacyState,  \* the channels of the legacy graph (its State)
    legacyEnv,    \* what the run's surroundings do: configuration, services
    legacyTodo,   \* the stages of the superstep that have not finished
    legacyRan,    \* the stages of the superstep that have finished
    legacyWrites, \* the updates returned in the superstep, not yet applied
    legacyLog,    \* the stages finished in this run, in order
    legacyStatus, \* "idle", "running", "returned" or "raised"
    legacyRuns,   \* runs of the legacy graph started so far
    outState,     \* the channels of the output subgraph (its State)
    outTodo,      \* the nodes of the superstep that have not finished
    outRan,       \* the nodes of the superstep that have finished
    outWrites,    \* the updates returned in the superstep, not yet applied
    outLog,       \* the nodes finished in this invocation, in order
    outStatus,    \* "idle", "running" or "returned"
    outRuns,      \* invocations of the output subgraph started so far
    results,      \* the result backend: task id -> state, result, retries
    queue,        \* the task ids waiting on the broker
    revoked,      \* the task ids a revoke was issued for
    sentJobs,     \* jobs triggered through the API so far
    dbPool,       \* Database.pool of the connection manager: None or a pool
    dbPools,      \* every pool create_pool has made: "open" or "closed"
    dbCalls,      \* the connect and disconnect calls made, in order
    applied,      \* the last call of a stage or service checked on its own
    inflight      \* client -> its repository call in progress, or its last one

alertVars == <<alerts, next_id, now, ret>>

jobVars == <<db, task, jobs, forecasts, actions>>

graphVars == <<gState, gStep, gTodo, gRan, gWrites, gLog, gInvocations>>

legacyVars == <<legacyState, legacyEnv, legacyTodo, legacyRan, legacyWrites,
                legacyLog, legacyStatus, legacyRuns>>

outputVars == <<outState, outTodo, outRan, outWrites, outLog, outStatus, outRuns>>

routeVars == <<results, queue, revoked, sentJobs>>

managerVars == <<dbPool, dbPools, dbCalls>>

\* the variables of the pure stages and services checked on their own
lateVars == <<managerVars, applied, inflight>>

\* the variables of the parts added after the data-collection subgraph
otherVars == <<legacyVars, outputVars, routeVars, lateVars>>

vars == <<alerts, next_id, now, ret, db, task, jobs, forecasts, actions,
          gState, gStep, gTodo, gRan, gWrites, gLog, gInvocations,
          legacyState, legacyEnv, legacyTodo, legacyRan, legacyWrites,
          legacyLog, legacyStatus, legacyRuns,
          outState, outTodo, outRan, outWrites, outLog, outStatus, outRuns,
          results, queue, revoked, sentJobs,
          dbPool, dbPools, dbCalls, applied, inflight>>

(***************************************************************************)
(* Bounds of the model.                                                    *)
(***************************************************************************)
MaxAlerts == 2      \* rows inserted through POST /alerts/
MaxNow == 91        \* the clock stops here
NumWorkers == 1     \* worker processes on the forecast queue
MaxRuns == 2        \* firings of the forecast schedule
MaxInvocations == 2 \* invocations of the data-collection subgraph
MaxLegacyRuns == 1  \* runs of the legacy graph
Horizon == 2        \* points kept of a forecast series
MockPromotions == 2 \* promotional days the mock data may draw
MockCompetitorActions == 3 \* competitor actions the mock data may draw
MaxOutputRuns == 1  \* invocations of the output subgraph
SmallLine == 20     \* monthly capacity of the one-line plant
MaxTriggers == 2    \* jobs triggered through the API
MaxCalls == 6       \* connect and disconnect calls on the connection manager
MaxProducts == 2    \* products of a category batch
MaxCodes == 11      \* product codes of a list to split
MaxPoints == 3      \* horizon points of a base forecast
PromoRecords == 10  \* records of a dataset given to promotional analysis
NumClients == 2     \* clients whose repository calls overlap

\* elapsed time between two requests, in days
TickDays == {91}

\* the worker processes that consume the forecast queue
Workers == 1..NumWorkers

\* the clients of the alert repository whose calls overlap
Clients == 1..NumClients

(***************************************************************************)
(* Program constants.                                                      *)
(***************************************************************************)
LimitMin == 1
LimitMax == 100
LimitDefault == 50
DaysMin == 30
DaysMax == 365
DaysDefault == 90
PriorityMin == 0
PriorityMax == 100
PriorityDefault == 50
CeleryDefaultMaxRetries == 3
MaxRetries == 3
MockDays == 30
ExternalDocs == 28
MockSalesDays == 365
BaseDemand == 100
PromotionalBoost == 150
CompetitorImpact == 125
MinRecords == 30
SeasonalityRecords == 90
LeadTimeDays == 7
ConstrainedPercent == 85
QuarterMonths == 3
TopProducts == 3
Batches == 5
RiskThreshold == 70

None == <<>>
Some(x) == <<x>>

Min(a, b) == IF a < b THEN a ELSE b
Max(a, b) == IF a > b THEN a ELSE b

Range(s) == {s[i] : i \in DOMAIN s}

\* Python truthiness of an Optional[str]: None and "" are both falsy
Truthy(opt) == opt # None /\ opt[1] # ""

Severities == {"high", "medium", "low"}

(***************************************************************************)
(* models/alert.py                                                         *)
(***************************************************************************)

\* AlertBase field constraints (pydantic): a request body that breaks one
\* is answered 422 before the handler runs
AlertBase(a) ==
    /\ a.severity \in Severities
    /\ a.message # ""
    /\ a.priority_score >= PriorityMin
    /\ a.priority_score <= PriorityMax

\* AlertUpdate: three optional fields, all None by default
AlertUpdate(read, read_by, dismissed) ==
    [read |-> read, read_by |-> read_by, dismissed |-> dismissed]

(***************************************************************************)
(* The two literal alerts of the scheduled forecast job.                   *)
(***************************************************************************)
mock_alerts(job_id, t) ==
    << [alert_type |-> "capacity_warning",
        severity |-> "high",
        message |-> "Production capacity projected to reach 95% utilization in Q1 2025",
        affected_products |-> <<"BUGI-IRIDIUM-VCH20", "AC-COMPRESSOR-6SEU14C">>,
        affected_categories |-> <<"Spark_Plugs", "AC_System">>,
        impact_description |-> Some("Forecast demand exceeds current capacity by 2,500 units"),
        action_required |-> Some("Schedule additional shifts or contract third-party manufacturers"),
        source |-> "scheduled_job",
        metadata |-> [forecast_period |-> "Q1_2025",
                      utilization_rate |-> "0.95",
                      shortfall_units |-> 2500,
                      execution_time |-> t,
                      langgraph_job_id |-> job_id],
        priority_score |-> 90],
       [alert_type |-> "demand_spike",
        severity |-> "medium",
        message |-> "15% demand increase detected for Spark Plugs category",
        affected_products |-> <<"BUGI-IRIDIUM-VCH20", "BUGI-PLATIN-PK16TT">>,
        affected_categories |-> <<"Spark_Plugs">>,
        impact_description |-> Some("Market analysis indicates increased vehicle maintenance activity"),
        action_required |-> Some("Increase raw material orders and adjust production schedule"),
        source |-> "scheduled_job",
        metadata |-> [demand_increase |-> "0.15",
                      market_factor |-> "seasonal",
                      confidence |-> "0.87"],
        priority_score |-> 70] >>

(***************************************************************************)
(* repositories/alert_repository.py                                        *)
(***************************************************************************)

\* Columns the INSERT of create_alert does not name: the table fills them in
ColumnDefaults(id, t) ==
    [id |-> id, created_at |-> t, updated_at |-> t,
     read |-> FALSE, read_at |-> None, read_by |-> None,
     dismissed |-> FALSE, dismissed_at |-> None]

\* INSERT INTO alerts (ten columns) VALUES ($1..$10) RETURNING *
create_alert(tbl, alert, id, t) ==
    LET d == ColumnDefaults(id, t)
        row == [id |-> d.id,
                alert_type |-> alert.alert_type,
                severity |-> alert.severity,
                message |-> alert.message,
                affected_products |-> alert.affected_products,
                affected_categories |-> alert.affected_categories,
                impact_description |-> alert.impact_description,
                action_required |-> alert.action_required,
                created_at |-> d.created_at,
                updated_at |-> d.updated_at,
                read |-> d.read,
                read_at |-> d.read_at,
                read_by |-> d.read_by,
                dismissed |-> d.dismissed,
                dismissed_at |-> d.dismissed_at,
                source |-> alert.source,
                metadata |-> alert.metadata,
                priority_score |-> alert.priority_score]
    IN  [tbl |-> tbl @@ (id :> row), row |-> Some(id)]

\* SELECT * FROM alerts WHERE id = $1
get_alert(tbl, alert_id) ==
    IF alert_id \in DOMAIN tbl THEN Some(alert_id) ELSE None

\* variant of WhereClause without the fixed "dismissed = FALSE" condition
WhereClause_without_dismissed(row, q) ==
    /\ (q.since # None => row.created_at > q.since[1])
    /\ (Truthy(q.severity) => row.severity = q.severity[1])
    /\ (Truthy(q.alert_type) => row.alert_type = q.alert_type[1])
    /\ (q.unread_only => row.read = FALSE)
    /\ (Truthy(q.product_code) =>
            \E i \in DOMAIN row.affected_products :
                row.affected_products[i] = q.product_code[1])

\* The WHERE clause get_alerts builds: "dismissed = FALSE" always, then one
\* condition per filter whose Python value is truthy (`if since:`,
\* `if severity:` ...; a datetime is always truthy, "" is not)
WhereClause(row, q) ==
    /\ row.dismissed = FALSE
    /\ (q.since # None => row.created_at > q.since[1])
    /\ (Truthy(q.severity) => row.severity = q.severity[1])
    /\ (Truthy(q.alert_type) => row.alert_type = q.alert_type[1])
    /\ (q.unread_only => row.read = FALSE)
    /\ (Truthy(q.product_code) =>
            \E i \in DOMAIN row.affected_products :
                row.affected_products[i] = q.product_code[1])

\* ORDER BY priority_score DESC, created_at DESC: a may be placed before b
OrderBy(a, b) ==
    \/ a.priority_score > b.priority_score
    \/ /\ a.priority_score = b.priority_score
       /\ a.created_at >= b.created_at

\* every arrangement of the ids S the ORDER BY allows (rows that agree on
\* both sort keys come in an order the store chooses)
Orderings(tbl, S) ==
    {ord \in [1..Cardinality(S) -> S] :
        /\ \A i, j \in DOMAIN ord : i # j => ord[i] # ord[j]
        /\ \A i, j \in DOMAIN ord : i < j => OrderBy(tbl[ord[i]], tbl[ord[j]])}

\* LIMIT limit OFFSET offset
LimitOffset(ord, limit, offset) ==
    [i \in 1..Min(limit, Max(0, Len(ord) - offset)) |-> ord[offset + i]]

\* the results get_alerts may return for the query q
get_alerts(tbl, q) ==
    {LimitOffset(ord, q.limit, q.offset) :
        ord \in Orderings(tbl, {id \in DOMAIN tbl : WhereClause(tbl[id], q)})}

\* variant of SetClause that writes the flags and never a timestamp
SetClause_without_stamps(row, update, t) ==
    LET r1 == IF update.read # None
                THEN [row EXCEPT !.read = update.read[1]] ELSE row
        r3 == IF update.read_by # None
                THEN [r1 EXCEPT !.read_by = update.read_by] ELSE r1
        r4 == IF update.dismissed # None
                THEN [r3 EXCEPT !.dismissed = update.dismissed[1]] ELSE r3
    IN  r4

\* variant of SetClause that stamps a timestamp on every supplied flag,
\* true or false
SetClause_stamps_any(row, update, t) ==
    LET r1 == IF update.read # None
                THEN [row EXCEPT !.read = update.read[1], !.read_at = Some(t)]
                ELSE row
        r3 == IF update.read_by # None
                THEN [r1 EXCEPT !.read_by = update.read_by] ELSE r1
        r4 == IF update.dismissed # None
                THEN [r3 EXCEPT !.dismissed = update.dismissed[1],
                                !.dismissed_at = Some(t)]
                ELSE r3
    IN  r4

\* variant of SetClause whose UPDATE names every column: a field the update
\* leaves out is written with its default
SetClause_every_column(row, update, t) ==
    LET read == update.read # None /\ update.read[1]
        dismissed == update.dismissed # None /\ update.dismissed[1]
        r1 == [row EXCEPT !.read = read, !.read_by = update.read_by,
                          !.dismissed = dismissed]
        r2 == IF read THEN [r1 EXCEPT !.read_at = Some(t)] ELSE r1
        r3 == IF dismissed THEN [r2 EXCEPT !.dismissed_at = Some(t)] ELSE r2
    IN  r3

\* The SET clause update_alert builds, applied to one row
SetClause(row, update, t) ==
    LET r1 == IF update.read # None
                THEN [row EXCEPT !.read = update.read[1]] ELSE row
        r2 == IF update.read # None /\ update.read[1]
                THEN [r1 EXCEPT !.read_at = Some(t)] ELSE r1
        r3 == IF update.read_by # None
                THEN [r2 EXCEPT !.read_by = update.read_by] ELSE r2
        r4 == IF update.dismissed # None
                THEN [r3 EXCEPT !.dismissed = update.dismissed[1]] ELSE r3
        r5 == IF update.dismissed # None /\ update.dismissed[1]
                THEN [r4 EXCEPT !.dismissed_at = Some(t)] ELSE r4
    IN  r5

\* variant of update_alert whose UPDATE has no WHERE id: every row is written
update_alert_every_row(tbl, alert_id, update, t) ==
    IF update.read = None /\ update.read_by = None /\ update.dismissed = None
    THEN [tbl |-> tbl, row |-> get_alert(tbl, alert_id)]
    ELSE IF alert_id \in DOMAIN tbl
         THEN [tbl |-> [id \in DOMAIN tbl |-> SetClause(tbl[id], update, t)],
               row |-> Some(alert_id)]
         ELSE [tbl |-> tbl, row |-> None]

\* update_alert: no supplied field -> get_alert; else UPDATE .. WHERE id
update_alert(tbl, alert_id, update, t) ==
    IF update.read = None /\ update.read_by = None /\ update.dismissed = None
    THEN [tbl |-> tbl, row |-> get_alert(tbl, alert_id)]
    ELSE IF alert_id \in DOMAIN tbl
         THEN [tbl |-> [tbl EXCEPT ![alert_id] = SetClause(@, update, t)],
               row |-> Some(alert_id)]
         ELSE [tbl |-> tbl, row |-> None]

\* delete_old_alerts sends "... NOW() - INTERVAL '%s days'" with `days` as a
\* bind argument.  The driver (asyncpg) binds $n parameters only and sends
\* the text as written: the statement has no parameter and the literal
\* '%s days' is no interval, so the store rejects it, the call raises and
\* no row is deleted, whatever `days` is.
delete_old_alerts(tbl, days) ==
    [tbl |-> tbl, raised |-> TRUE, count |-> None]

(***************************************************************************)
(* Requests the model sends.                                               *)
(***************************************************************************)

\* an alert body that leaves every optional field at its default
DefaultsAlert ==
    [alert_type |-> "logistics_delay",
     severity |-> "low",
     message |-> "Shipment delayed",
     affected_products |-> <<>>,
     affected_categories |-> <<>>,
     impact_description |-> None,
     action_required |-> None,
     source |-> "scheduled_job",
     metadata |-> [note |-> "manual"],
     priority_score |-> PriorityDefault]

\* bodies of POST /alerts/: the two literal alerts and one body the schema
\* rejects
PostBodies ==
    {mock_alerts(0, 0)[1], mock_alerts(0, 0)[2],
     [DefaultsAlert EXCEPT !.severity = "critical"]}

\* the bodies used where the content of an alert plays no part
PostBodiesOne ==
    {mock_alerts(0, 0)[2], [DefaultsAlert EXCEPT !.message = ""]}

\* GET /alerts/ with every query parameter left out
BaseQuery ==
    [since |-> None, severity |-> None, alert_type |-> None,
     unread_only |-> FALSE, product_code |-> None,
     limit |-> LimitDefault, offset |-> 0]

ListQueries ==
    {[BaseQuery EXCEPT !.limit = w[1], !.offset = w[2]] :
        w \in {<<1, 0>>, <<1, 1>>, <<LimitMax, 0>>, <<0, 0>>, <<LimitMax + 1, 0>>}}
    \cup {[BaseQuery EXCEPT !.severity = s] : s \in {Some("medium"), Some("urgent")}}
    \cup {[BaseQuery EXCEPT !.product_code = s] :
            s \in {Some("BUGI-IRIDIUM-VCH20"), Some("")}}
    \cup {[BaseQuery EXCEPT !.unread_only = TRUE, !.since = Some(0)],
          [BaseQuery EXCEPT !.alert_type = Some(""), !.unread_only = TRUE],
          [BaseQuery EXCEPT !.alert_type = Some("demand_spike"), !.limit = 1]}

OptBool == {None, Some(TRUE), Some(FALSE)}
OptUser == {None, Some("u1")}

UpdateInputs ==
    {AlertUpdate(None, None, None), AlertUpdate(None, Some("u1"), None),
     AlertUpdate(Some(TRUE), None, None), AlertUpdate(Some(FALSE), None, None),
     AlertUpdate(None, None, Some(TRUE)), AlertUpdate(None, None, Some(FALSE)),
     AlertUpdate(Some(TRUE), Some("u1"), Some(TRUE)),
     AlertUpdate(Some(FALSE), Some("u1"), Some(FALSE))}

\* the bodies of PATCH that take back what mark-read and dismiss did
UpdateInputsFlags ==
    {AlertUpdate(None, None, None), AlertUpdate(Some(FALSE), None, None),
     AlertUpdate(None, None, Some(FALSE)),
     AlertUpdate(Some(TRUE), None, Some(TRUE))}

\* ids a request may name: 0 is never generated
IdInputs == 0..MaxAlerts

\* the `days` argument of a cleanup (None: left out)
DaysInputs == {None, Some(5), Some(29), Some(30), Some(365), Some(366)}

(***************************************************************************)
(* api/alert_routes.py: one action per route.                              *)
(***************************************************************************)

\* what a handler leaves behind: the request it served (req) and its answer
Response(op, req, status, rows) ==
    [op |-> op, req |-> req, status |-> status, rows |-> rows,
     days |-> None, count |-> None]

NoRequest == [id |-> 0]

\* the clock advances between requests
Tick(d) ==
    /\ now + d <= MaxNow
    /\ now' = now + d
    /\ UNCHANGED <<alerts, next_id, ret, jobVars, graphVars, otherVars>>

\* POST /alerts/
create_alert_route(alert) ==
    IF ~AlertBase(alert)
    THEN /\ ret' = Response("create_alert", [alert |-> alert], "422", <<>>)
         /\ UNCHANGED <<alerts, next_id, now, jobVars, graphVars, otherVars>>
    ELSE /\ next_id < MaxAlerts
         /\ LET r == create_alert(alerts, alert, next_id + 1, now)
            IN  /\ alerts' = r.tbl
                /\ ret' = Response("create_alert", [alert |-> alert], "201", r.row)
         /\ next_id' = next_id + 1
         /\ UNCHANGED <<now, jobVars, graphVars, otherVars>>

\* Query(...) constraints of GET /alerts/
ListQueryValid(q) ==
    /\ q.severity # None => q.severity[1] \in Severities
    /\ q.limit >= LimitMin
    /\ q.limit <= LimitMax
    /\ q.offset >= 0

\* GET /alerts/
get_alerts_route(q) ==
    /\ IF ~ListQueryValid(q)
       THEN ret' = Response("get_alerts", q, "422", <<>>)
       ELSE \E rows \in get_alerts(alerts, q) :
                ret' = Response("get_alerts", q, "200", rows)
    /\ UNCHANGED <<alerts, next_id, now, jobVars, graphVars, otherVars>>

\* GET /alerts/{alert_id}
get_alert_route(alert_id) ==
    /\ LET row == get_alert(alerts, alert_id)
       IN  ret' = Response("get_alert", [id |-> alert_id],
                           IF row = None THEN "404" ELSE "200", row)
    /\ UNCHANGED <<alerts, next_id, now, jobVars, graphVars, otherVars>>

\* the three routes that end in repo.update_alert
UpdateRoute(op, alert_id, update) ==
    /\ LET r == update_alert(alerts, alert_id, update, now)
       IN  /\ alerts' = r.tbl
           /\ ret' = Response(op, [id |-> alert_id, update |-> update],
                              IF r.row = None THEN "404" ELSE "200", r.row)
    /\ UNCHANGED <<next_id, now, jobVars, graphVars, otherVars>>

\* PATCH /alerts/{alert_id}
update_alert_route(alert_id, update) ==
    UpdateRoute("update_alert", alert_id, update)

\* POST /alerts/{alert_id}/mark-read
mark_alert_read(alert_id, user_id) ==
    UpdateRoute("mark_alert_read", alert_id, AlertUpdate(Some(TRUE), user_id, None))

\* POST /alerts/{alert_id}/dismiss
dismiss_alert(alert_id) ==
    UpdateRoute("dismiss_alert", alert_id, AlertUpdate(None, None, Some(TRUE)))

\* DELETE /alerts/cleanup: days = Query(90, ge=30, le=365)
cleanup_old_alerts_route(days_arg) ==
    LET days == IF days_arg = None THEN DaysDefault ELSE days_arg[1]
        req == [days |-> days_arg]
    IN  IF days < DaysMin \/ days > DaysMax
        THEN /\ ret' = Response("cleanup_route", req, "422", <<>>)
             /\ UNCHANGED <<alerts, next_id, now, jobVars, graphVars, otherVars>>
        ELSE LET r == delete_old_alerts(alerts, days)
             IN  /\ alerts' = r.tbl
                 /\ ret' = [Response("cleanup_route", req,
                                     IF r.raised THEN "500" ELSE "200", <<>>)
                               EXCEPT !.days = Some(days), !.count = r.count]
                 /\ UNCHANGED <<next_id, now, jobVars, graphVars, otherVars>>

(***************************************************************************)
(* tasks/forecast_tasks.py: the cleanup job.                               *)
(***************************************************************************)

\* variant of TaskRetry without the max_retries limit
TaskRetry_without_limit(retries, max_retries) == "RETRY"

\* self.retry(exc): reschedules while the request's retry count is below
\* max_retries, else the task fails with exc
TaskRetry(retries, max_retries) ==
    IF retries < max_retries THEN "RETRY" ELSE "FAILURE"

\* cleanup_old_alerts(self, days=90) on a request that was retried
\* `retries` times already; _cleanup_alerts_async passes days on as it is
cleanup_old_alerts_task(days_arg, retries) ==
    LET days == IF days_arg = None THEN DaysDefault ELSE days_arg[1]
        r == delete_old_alerts(alerts, days)
    IN  /\ alerts' = r.tbl
        /\ ret' = [Response("cleanup_task", [days |-> days_arg, retries |-> retries],
                            IF r.raised
                              THEN TaskRetry(retries, CeleryDefaultMaxRetries)
                              ELSE "SUCCESS", <<>>)
                      EXCEPT !.days = Some(days), !.count = r.count]
        /\ UNCHANGED <<next_id, now, jobVars, graphVars, otherVars>>

(***************************************************************************)
(* tasks/forecast_tasks.py: the integrated scheduled-forecast job.         *)
(* A dict key that is absent is Missing, a key that is present holds       *)
(* <<value>>; the Python value None is Null.                               *)
(***************************************************************************)
Missing == <<>>
Null == "None"

\* dict.get(key, default)
Get(entry, default) == IF entry = Missing THEN default ELSE entry[1]

\* a numeric value of the graph's output is <<n>>, or <<>> for None:
\* int(None) raises TypeError, int(n) is n for an integer
Raises(x) == x = <<>>
int(x) == x[1]

\* _get_all_product_codes: the literal catalog
_get_all_product_codes ==
    <<"BUGI-IRIDIUM-VCH20", "BUGI-PLATIN-PK16TT", "AC-COMPRESSOR-6SEU14C",
      "AC-EVAPORATOR-CORE", "AC-CONDENSER-CORE">>

\* the literal timeseries of a mock forecast: one point per day
MockTimeseries(base, step, spread) ==
    [i \in 1..MockDays |->
        [date |-> i - 1,
         forecast |-> base + (i - 1) * step,
         upper_bound |-> base + spread + (i - 1) * step,
         lower_bound |-> base - spread + (i - 1) * step]]

\* _generate_mock_forecast_data: the literal fallback payload
_generate_mock_forecast_data(job_id) ==
    [raised |-> FALSE,
     forecasts |->
        << [product_code |-> "BUGI-IRIDIUM-VCH20",
            product_name |-> "Bugi Iridium VCH20",
            category |-> "Spark_Plugs",
            forecast_units |-> 4500,
            current_stock |-> 3200,
            trend |-> "increasing",
            change_percent |-> "15.5",
            confidence |-> "0.87",
            timeseries |-> MockTimeseries(150, 2, 20),
            metrics |-> Some([mape |-> "8.5", rmse |-> "45.2",
                              mae |-> "38.1", r_squared |-> "0.89"])],
           [product_code |-> "AC-COMPRESSOR-6SEU14C",
            product_name |-> "AC Compressor 6SEU14C",
            category |-> "AC_System",
            forecast_units |-> 2800,
            current_stock |-> 3500,
            trend |-> "stable",
            change_percent |-> "-2.3",
            confidence |-> "0.92",
            timeseries |-> MockTimeseries(93, 1, 12),
            metrics |-> Some([mape |-> "5.2", rmse |-> "28.7",
                              mae |-> "24.3", r_squared |-> "0.93"])] >>,
     actions |->
        << [action_type |-> "capacity_planning",
            category |-> "production",
            title |-> "Increase Spark Plug Production Capacity",
            priority |-> "high",
            affected_products |-> <<"BUGI-IRIDIUM-VCH20", "BUGI-PLATIN-PK16TT">>,
            estimated_cost |-> "150000.0",
            deadline |-> Some(30),
            confidence_score |-> "0.85"],
           [action_type |-> "inventory_optimization",
            category |-> "inventory",
            title |-> "Reduce AC Compressor Stock Levels",
            priority |-> "medium",
            affected_products |-> <<"AC-COMPRESSOR-6SEU14C">>,
            estimated_cost |-> "0.0",
            deadline |-> Some(14),
            confidence_score |-> "0.78"] >>]

\* True under Python truthiness for a list, a dict or None
Falsy(x) == x = Missing \/ x = Some(Null) \/ x = Some(<<>>)

\* what stands for a TypeError raised while a value is built
TypeError == [raise |-> "TypeError"]

\* one product_forecast of a batch -> forecast_data, or TypeError when int()
\* meets None
ParseForecast(pf, category) ==
    IF Raises(Get(pf.forecast_30d, <<0>>)) \/ Raises(Get(pf.current_stock, <<0>>))
    THEN TypeError
    ELSE [product_code |-> Get(pf.product_code, Null),
          product_name |-> Get(pf.product_name, Null),
          category |-> category,
          forecast_units |-> int(Get(pf.forecast_30d, <<0>>)),
          current_stock |-> int(Get(pf.current_stock, <<0>>)),
          trend |-> Get(pf.trend, "stable"),
          change_percent |-> Get(pf.change_percent, "0.0"),
          confidence |-> Get(pf.confidence, "0.75"),
          timeseries |-> Get(pf.timeseries, <<>>),
          metrics |-> IF Falsy(pf.metrics) THEN None ELSE pf.metrics]

\* one suggested action or production suggestion -> action_data
ParseAction(item, action_type, category) ==
    [action_type |-> action_type,
     category |-> category,
     title |-> Get(item.title, "Action Required"),
     priority |-> Get(item.priority, "medium"),
     affected_products |-> Get(item.affected_products, <<>>),
     estimated_cost |-> Get(item.estimated_cost, "0.0"),
     deadline |-> IF item.deadline = Missing THEN None ELSE item.deadline,
     confidence_score |-> Get(item.confidence_score, "0.75")]

\* the contribution of the batches from position i on
RECURSIVE ParseBatches(_, _)
ParseBatches(batches, i) ==
    IF i > Len(batches) THEN [forecasts |-> <<>>, actions |-> <<>>]
    ELSE LET rest == ParseBatches(batches, i + 1)
             batch == batches[i]
         IN  IF batch = <<>> THEN rest
             ELSE LET category == Get(batch.category, "Unknown")
                      pfs == Get(batch.product_forecasts, <<>>)
                      sas == Get(batch.suggested_actions, <<>>)
                  IN  [forecasts |->
                          [k \in DOMAIN pfs |-> ParseForecast(pfs[k], category)]
                            \o rest.forecasts,
                       actions |->
                          [k \in DOMAIN sas |->
                              ParseAction(sas[k],
                                          Get(sas[k].action_type, "optimization"),
                                          Get(sas[k].category, "general"))]
                            \o rest.actions]

\* _parse_langgraph_output: forecasts and actions of every non-empty batch,
\* then one production_planning action per production suggestion
_parse_langgraph_output(langgraph_result, job_id) ==
    LET b == ParseBatches(Get(langgraph_result.batch_results, <<>>), 1)
        ps == IF Falsy(langgraph_result.production_suggestions) THEN <<>>
              ELSE langgraph_result.production_suggestions[1]
    IN  [raised |-> \E k \in DOMAIN b.forecasts : b.forecasts[k] = TypeError,
         forecasts |-> b.forecasts,
         actions |-> b.actions \o
            [k \in DOMAIN ps |->
                ParseAction(ps[k], "production_planning", "production")]]

\* ForecastRepository.create_forecast: one row per call, id in insertion
\* order; the timeseries and the metrics are written by later calls
create_forecast(tbl, forecast_data, job_id) ==
    LET id == Len(tbl) + 1
    IN  [tbl |-> Append(tbl,
                    [id |-> id,
                     product_id |-> forecast_data.product_code,
                     product_code |-> forecast_data.product_code,
                     product_name |-> forecast_data.product_name,
                     category |-> forecast_data.category,
                     forecast_units |-> forecast_data.forecast_units,
                     forecast_horizon |-> "30_days",
                     current_stock |-> forecast_data.current_stock,
                     trend |-> forecast_data.trend,
                     change_percent |-> forecast_data.change_percent,
                     confidence |-> forecast_data.confidence,
                     langgraph_job_id |-> job_id,
                     model_type |-> "Prophet + LLM",
                     timeseries |-> None,
                     metrics |-> None]),
         id |-> id]

\* ForecastRepository.save_timeseries
save_timeseries(tbl, forecast_id, timeseries) ==
    [tbl EXCEPT ![forecast_id].timeseries = Some(timeseries)]

\* ForecastRepository.save_metrics
save_metrics(tbl, forecast_id, metrics) ==
    [tbl EXCEPT ![forecast_id].metrics = metrics]

\* ActionRepository.create_action
create_action(tbl, forecast_id, action_data, job_id) ==
    LET id == Len(tbl) + 1
    IN  [tbl |-> Append(tbl,
                    [id |-> id,
                     forecast_id |-> forecast_id,
                     action_type |-> action_data.action_type,
                     category |-> action_data.category,
                     title |-> action_data.title,
                     priority |-> action_data.priority,
                     affected_products |-> action_data.affected_products,
                     estimated_cost |-> action_data.estimated_cost,
                     deadline |-> action_data.deadline,
                     confidence_score |-> action_data.confidence_score,
                     langgraph_job_id |-> job_id]),
         id |-> id]

\* the store calls of the forecast loop from forecast i on: per forecast
\* create_forecast, save_timeseries and, when it has metrics, save_metrics
RECURSIVE ForecastCalls(_, _)
ForecastCalls(fs, i) ==
    IF i > Len(fs) THEN <<>>
    ELSE << [call |-> "create_forecast", arg |-> fs[i]],
            [call |-> "save_timeseries", arg |-> fs[i].timeseries] >>
         \o (IF fs[i].metrics # None
               THEN << [call |-> "save_metrics", arg |-> fs[i].metrics] >>
               ELSE <<>>)
         \o ForecastCalls(fs, i + 1)

\* every store call of one run of the job body, in program order: the
\* forecast loop, the action loop, the alert loop
StoreCalls(payload, job_id, t) ==
    ForecastCalls(payload.forecasts, 1)
    \o [k \in DOMAIN payload.actions |->
            [call |-> "create_action", arg |-> payload.actions[k]]]
    \o [k \in DOMAIN mock_alerts(job_id, t) |->
            [call |-> "create_alert", arg |-> mock_alerts(job_id, t)[k]]]

\* what the body holds while it runs: the stores and its three id lists
Frame(f, a, al, nid) ==
    [forecasts |-> f, actions |-> a, alerts |-> al, next_id |-> nid,
     saved_forecast_ids |-> <<>>, saved_action_ids |-> <<>>,
     created_alerts |-> <<>>]

\* one store call that returns, applied to the frame; each call commits by
\* itself
StoreCall(fr, c, job_id, t) ==
    CASE c.call = "create_forecast" ->
            LET r == create_forecast(fr.forecasts, c.arg, job_id)
            IN  [fr EXCEPT !.forecasts = r.tbl,
                           !.saved_forecast_ids = Append(@, r.id)]
      [] c.call = "save_timeseries" ->
            [fr EXCEPT !.forecasts =
                save_timeseries(@, fr.saved_forecast_ids[Len(fr.saved_forecast_ids)],
                                c.arg)]
      [] c.call = "save_metrics" ->
            [fr EXCEPT !.forecasts =
                save_metrics(@, fr.saved_forecast_ids[Len(fr.saved_forecast_ids)],
                             c.arg)]
      [] c.call = "create_action" ->
            LET r == create_action(fr.actions,
                        IF fr.saved_forecast_ids # <<>>
                          THEN Some(fr.saved_forecast_ids[1]) ELSE None,
                        c.arg, job_id)
            IN  [fr EXCEPT !.actions = r.tbl,
                           !.saved_action_ids = Append(@, r.id)]
      [] c.call = "create_alert" ->
            LET r == create_alert(fr.alerts, c.arg, fr.next_id + 1, t)
            IN  [fr EXCEPT !.alerts = r.tbl,
                           !.next_id = @ + 1,
                           !.created_alerts = Append(@, r.row[1])]

\* the frame after the first n store calls have returned
RECURSIVE StoreCallsDone(_, _, _, _, _)
StoreCallsDone(fr, calls, n, job_id, t) ==
    IF n = 0 THEN fr
    ELSE StoreCall(StoreCallsDone(fr, calls, n - 1, job_id, t), calls[n], job_id, t)

\* variant of Payload without the fallback: a graph that gave no
\* batch_results leaves nothing to persist
Payload_without_fallback(outcome, job_id) ==
    IF outcome.kind = "result" /\ ~Falsy(outcome.result.batch_results)
    THEN _parse_langgraph_output(outcome.result, job_id)
    ELSE [raised |-> FALSE, forecasts |-> <<>>, actions |-> <<>>]

\* the payload the body persists: the parsed graph result when the graph
\* returned one with batch_results, else the literal fallback (timeout and
\* exception leave langgraph_result = None)
Payload(outcome, job_id) ==
    IF outcome.kind = "result" /\ ~Falsy(outcome.result.batch_results)
    THEN _parse_langgraph_output(outcome.result, job_id)
    ELSE _generate_mock_forecast_data(job_id)

\* the store calls the body is about to make (none when parsing raised)
BodyCalls(outcome, job_id, t) ==
    IF Payload(outcome, job_id).raised THEN <<>>
    ELSE StoreCalls(Payload(outcome, job_id), job_id, t)

\* _run_forecast_async with job id job_id, the graph ending in `outcome` and
\* store call number `failing` raising (0: none raises).  Every exception of
\* the body ends in the status "failed" document.
_run_forecast_async(fr, job_id, outcome, failing, t) ==
    LET payload == Payload(outcome, job_id)
        calls == BodyCalls(outcome, job_id, t)
        done == StoreCallsDone(fr, calls,
                               IF failing = 0 THEN Len(calls) ELSE failing - 1,
                               job_id, t)
    IN  IF payload.raised
        THEN [frame |-> fr,
              doc |-> [status |-> "failed", error |-> "TypeError",
                       execution_time |-> t, langgraph_job_id |-> job_id]]
        ELSE IF failing # 0
        THEN [frame |-> done,
              doc |-> [status |-> "failed", error |-> calls[failing].call,
                       execution_time |-> t, langgraph_job_id |-> job_id]]
        ELSE [frame |-> done,
              doc |-> [status |-> "completed",
                       execution_time |-> t,
                       langgraph_job_id |-> job_id,
                       forecasts_saved |-> Len(done.saved_forecast_ids),
                       actions_saved |-> Len(done.saved_action_ids),
                       alerts_generated |-> Len(done.created_alerts),
                       forecast_ids |-> done.saved_forecast_ids,
                       action_ids |-> done.saved_action_ids,
                       alert_ids |-> done.created_alerts,
                       summary |->
                          [s \in Severities \ {"info"} |->
                              Cardinality({k \in DOMAIN done.created_alerts :
                                  done.alerts[done.created_alerts[k]].severity = s})]]]

\* what the worker records for a delivery of the forecast task
JobResponse(req, status, doc) ==
    Response("run_scheduled_forecast", req, status, <<>>) @@ [doc |-> doc]

\* the beat schedule queues run_scheduled_forecast
beat_run_forecast ==
    /\ task.state # "PENDING"
    /\ task.run < MaxRuns
    /\ task' = [state |-> "PENDING", retries |-> 0, run |-> task.run + 1]
    /\ UNCHANGED <<alertVars, db, jobs, forecasts, actions, graphVars, otherVars>>

\* worker_max_tasks_per_child: the pool replaces a worker process, the new
\* process starts with _db = None
worker_child_replaced(w) ==
    /\ db[w] # "None"
    /\ db' = [db EXCEPT ![w] = "None"]
    /\ UNCHANGED <<alertVars, task, jobs, forecasts, actions, graphVars, otherVars>>

\* run_scheduled_forecast delivered to worker w.  self.db creates the
\* Database and opens its pool when _db is None; `connects` tells whether
\* that succeeds.  _db is assigned before connect() is awaited.
run_scheduled_forecast(w, connects, outcome) ==
    /\ task.state = "PENDING"
    /\ db[w] # "None" => connects
    /\ IF db[w] = "None" /\ ~connects
       THEN /\ db' = [db EXCEPT ![w] = "NoPool"]
            /\ task' = IF TaskRetry(task.retries, MaxRetries) = "RETRY"
                         THEN [task EXCEPT !.retries = @ + 1]
                         ELSE [task EXCEPT !.state = "FAILURE"]
            /\ ret' = JobResponse([worker |-> w, outcome |-> [kind |-> "none"],
                                   failing |-> 0],
                                  TaskRetry(task.retries, MaxRetries), None)
            /\ UNCHANGED <<alerts, next_id, now, jobs, forecasts, actions, graphVars, otherVars>>
       ELSE \E failing \in 0..Len(BodyCalls(outcome, jobs + 1, now)) :
            /\ db[w] = "NoPool" => failing = 1
            /\ LET r == _run_forecast_async(
                            Frame(forecasts, actions, alerts, next_id),
                            jobs + 1, outcome, failing, now)
               IN  /\ forecasts' = r.frame.forecasts
                   /\ actions' = r.frame.actions
                   /\ alerts' = r.frame.alerts
                   /\ next_id' = r.frame.next_id
                   /\ ret' = JobResponse([worker |-> w, outcome |-> outcome,
                                          failing |-> failing],
                                         "SUCCESS", Some(r.doc))
            /\ db' = [db EXCEPT ![w] = IF @ = "None" THEN "Pool" ELSE @]
            /\ jobs' = jobs + 1
            /\ task' = [task EXCEPT !.state = "SUCCESS"]
            /\ UNCHANGED <<now, graphVars, otherVars>>

\* what the orchestration graph may hand back
ProductForecast(units) ==
    [product_code |-> Some("BUGI-PLATIN-PK16TT"),
     product_name |-> Some("Bugi Platin PK16TT"),
     forecast_30d |-> units, current_stock |-> Missing, trend |-> Missing,
     change_percent |-> Missing, confidence |-> Missing,
     timeseries |-> Missing, metrics |-> Missing]

Suggestion ==
    [action_type |-> Missing, category |-> Missing,
     title |-> Some("Raise safety stock"), priority |-> Missing,
     affected_products |-> Missing, estimated_cost |-> Missing,
     deadline |-> Missing, confidence_score |-> Missing]

GraphResults ==
    {[batch_results |->
        Some(<<[category |-> Some("Spark_Plugs"),
                product_forecasts |-> Some(<<ProductForecast(Some(<<1200>>))>>),
                suggested_actions |-> Some(<<Suggestion>>)]>>),
      production_suggestions |-> Missing],
     [batch_results |-> Some(<< <<>> >>),
      production_suggestions |-> Some(<<Suggestion>>)],
     [batch_results |->
        Some(<<[category |-> Missing,
                product_forecasts |-> Some(<<ProductForecast(Some(<<>>))>>),
                suggested_actions |-> Missing]>>),
      production_suggestions |-> Missing],
     [batch_results |-> Some(<<>>), production_suggestions |-> Missing],
     [batch_results |-> Missing, production_suggestions |-> Missing]}

\* how asyncio.wait_for(graph.ainvoke(...), timeout=600.0) may end
GraphOutcomes ==
    {[kind |-> "timeout"], [kind |-> "exception"]}
    \cup {[kind |-> "result", result |-> r] : r \in GraphResults}

(***************************************************************************)
(* agent/subgraph_data_collection.py, run by the graph engine: an          *)
(* invocation proceeds in supersteps.  The nodes of a superstep run         *)
(* concurrently on the state as it was when the superstep began; what they  *)
(* return is applied when all of them have finished, and a node is          *)
(* scheduled for the next superstep when a node with an edge to it has      *)
(* finished in this one.                                                    *)
(***************************************************************************)

\* types_new.State with its defaults, given the chromadb_collection the
\* caller sets
State(chromadb_collection) ==
    [internal_data |-> None,
     supply_chain_risks |-> None,
     raw_external_data |-> None,
     ingestion_timestamp |-> None,
     cleaned_external_data |-> None,
     cleaning_stats |-> None,
     chromadb_collection |-> chromadb_collection,
     stored_document_ids |-> <<>>,
     total_stored |-> 0,
     storage_timestamp |-> None,
     aggregated_data |-> None]

\* `x or default` of Python for an Optional
Or(opt, default) == IF opt = None THEN default ELSE opt[1]

EmptyDict == [empty |-> "dict"]

\* fetch_internal_data: the literal orders, inventory and capacity
fetch_internal_data(state) ==
    [internal_data |->
        Some([orders |-> <<"ORD-001", "ORD-002", "ORD-003">>,
              inventory |-> <<"INV-001", "INV-002", "INV-003">>,
              production_capacity |-> <<"Line-A", "Line-B", "Line-C">>,
              fetch_timestamp |-> "2025-01-15T10:00:00"])]

\* fetch_supply_chain_risk: the literal supplier and logistics figures
fetch_supply_chain_risk(state) ==
    [supply_chain_risks |->
        Some([supplier_status |-> <<"SUP-001", "SUP-002", "SUP-003">>,
              logistics_delays |-> <<"sea_freight", "air_freight", "land_transport">>,
              overall_risk_score |-> "0.25",
              fetch_timestamp |-> "2025-01-15T10:00:00"])]

\* ingest_external_data: the literal documents, here by position
ingest_external_data(state) ==
    [raw_external_data |-> Some([i \in 1..ExternalDocs |-> [doc |-> i]]),
     ingestion_timestamp |-> Some("2024-10-15T10:00:00")]

\* clean_and_tag: one cleaned item per raw item
clean_and_tag(state) ==
    LET raw_data == Or(state.raw_external_data, <<>>)
        cleaned_data == [i \in DOMAIN raw_data |->
                            [doc |-> raw_data[i].doc, normalized |-> TRUE]]
    IN  [cleaned_external_data |-> Some(cleaned_data),
         cleaning_stats |-> Some([total_items |-> Len(raw_data),
                                  cleaned_items |-> Len(cleaned_data),
                                  duplicates_removed |-> 0])]

\* store_in_chromadb: one id per cleaned item
store_in_chromadb(state) ==
    LET cleaned_data == Or(state.cleaned_external_data, <<>>)
        stored_ids == [i \in DOMAIN cleaned_data |-> i - 1]
    IN  [chromadb_collection |-> Some("external_market_data"),
         stored_document_ids |-> stored_ids,
         total_stored |-> Len(stored_ids),
         storage_timestamp |-> Some("2024-10-15T10:05:00")]

\* aggregate_all_data: reads the three sources from the state it is given
aggregate_all_data(state) ==
    [aggregated_data |->
        Some([internal |-> Or(state.internal_data, EmptyDict),
              supply_chain |-> Or(state.supply_chain_risks, EmptyDict),
              external |->
                 [cleaned_data |-> Or(state.cleaned_external_data, <<>>),
                  chromadb_collection |-> state.chromadb_collection,
                  total_stored |-> state.total_stored],
              aggregation_timestamp |-> "2025-01-15T10:05:00",
              data_sources_count |-> 3])]

\* create_data_collection_subgraph: add_node
Nodes ==
    {"fetch_internal", "fetch_supply_chain", "ingest_external",
     "clean_external", "store_external", "aggregate_data"}

\* create_data_collection_subgraph: add_edge, one call per pair
Edges ==
    {<<"__start__", "fetch_internal">>,
     <<"__start__", "fetch_supply_chain">>,
     <<"__start__", "ingest_external">>,
     <<"ingest_external", "clean_external">>,
     <<"clean_external", "store_external">>,
     <<"fetch_internal", "aggregate_data">>,
     <<"fetch_supply_chain", "aggregate_data">>,
     <<"store_external", "aggregate_data">>}

\* the function add_node binds to a node, applied to a state
NodeReturns(n, state) ==
    CASE n = "fetch_internal" -> fetch_internal_data(state)
      [] n = "fetch_supply_chain" -> fetch_supply_chain_risk(state)
      [] n = "ingest_external" -> ingest_external_data(state)
      [] n = "clean_external" -> clean_and_tag(state)
      [] n = "store_external" -> store_in_chromadb(state)
      [] n = "aggregate_data" -> aggregate_all_data(state)

\* the nodes an edge from one of `done` leads to: each single-source edge
\* schedules its target by itself
Triggered(done) == {e[2] : e \in {x \in Edges : x[1] \in done}}

\* the state with the updates of a superstep applied
ApplyWrites(state, writes) ==
    [k \in DOMAIN state |-> IF k \in DOMAIN writes THEN writes[k] ELSE state[k]]

\* run_data_collection: subgraph.ainvoke(state)
run_data_collection(chromadb_collection) ==
    /\ gStep = 0
    /\ gInvocations < MaxInvocations
    /\ gInvocations' = gInvocations + 1
    /\ gState' = State(chromadb_collection)
    /\ gStep' = 1
    /\ gTodo' = Triggered({"__start__"})
    /\ gRan' = {}
    /\ gWrites' = <<>>
    /\ gLog' = <<>>
    /\ UNCHANGED <<alertVars, jobVars, otherVars>>

\* a node of the superstep in progress finishes and returns its update
node_finishes(n) ==
    /\ gStep > 0
    /\ n \in gTodo
    /\ gTodo' = gTodo \ {n}
    /\ gRan' = gRan \cup {n}
    /\ gWrites' = NodeReturns(n, gState) @@ gWrites
    /\ gLog' = Append(gLog, n)
    /\ UNCHANGED <<gState, gStep, gInvocations, alertVars, jobVars, otherVars>>

\* every node of the superstep has finished: the updates are applied and
\* the next superstep begins, or the invocation returns
superstep_ends ==
    /\ gStep > 0
    /\ gTodo = {}
    /\ gState' = ApplyWrites(gState, gWrites)
    /\ gWrites' = <<>>
    /\ gRan' = {}
    /\ gTodo' = Triggered(gRan)
    /\ gStep' = IF Triggered(gRan) = {} THEN 0 ELSE gStep + 1
    /\ UNCHANGED <<gLog, gInvocations, alertVars, jobVars, otherVars>>

\* the chromadb_collection a caller may set on the input state
CollectionInputs == {None, Some("denso_market_intelligence")}

(***************************************************************************)
(* The legacy graph (agent/graph.py).  Its stages are chained one after    *)
(* another, with one conditional branch after pattern recognition.  A      *)
(* DataFrame is kept as the figures the stages read from it; a number      *)
(* rounded to two decimals is kept as a count of hundredths.  A stage      *)
(* returns its update, or a record with the single field `raise` when an   *)
(* exception leaves it.                                                    *)
(***************************************************************************)

Raise(name) == [raise |-> name]
Raised(r) == "raise" \in DOMAIN r

\* round(a / b) to the nearest integer, for b > 0 and a >= 0
RoundDiv(a, b) == (2 * a + b) \div (2 * b)

\* generate_mock_sales_data as called by load_and_cleanse_data: one row a
\* day for a year, `promotions` of them promotional days
generate_mock_sales_data(product_id, promotions) ==
    [records |-> MockSalesDays,
     columns |-> {"date", "product_id", "sales", "price", "promotion"},
     product_ids |-> {product_id},
     promo_days |-> promotions,
     avg_promo_sales |-> (BaseDemand * PromotionalBoost) \div 100,
     avg_non_promo_sales |-> BaseDemand,
     recent_avg_sales |-> BaseDemand,
     avg_sales |-> BaseDemand]

\* cleanse_data: rows with negative or missing sales are dropped (the mock
\* data has none), the rest sorted by date
cleanse_data(df) == df

\* generate_mock_product_info: one row per product id
generate_mock_product_info(product_ids) ==
    [records |-> Cardinality(product_ids),
     columns |-> {"product_id", "category", "launch_date", "base_price"},
     product_ids |-> product_ids]

\* generate_mock_competitor_data: a row for each day a competitor acted
generate_mock_competitor_data(product_id, acted) ==
    [records |-> acted,
     columns |-> {"date", "product_id", "competitor", "action_type", "impact_score"},
     product_ids |-> IF acted = 0 THEN {} ELSE {product_id},
     avg_impact_score |-> CompetitorImpact]

\* validate_data: the report fields the stages read
validate_data(df) ==
    IF df.records = 0
    THEN [is_valid |-> FALSE, total_records |-> 0, error |-> "Empty dataset"]
    ELSE IF df.records < MinRecords
    THEN [is_valid |-> FALSE, total_records |-> df.records,
          error |-> "Insufficient data (need at least 30 records)"]
    ELSE [is_valid |-> TRUE, total_records |-> df.records]

\* agent.types.State with its defaults
StateDefaults ==
    [product_id |-> "",
     historical_data |-> None,
     product_info |-> None,
     competitor_data |-> None,
     promotion_dates |-> <<>>,
     new_product_id |-> "",
     new_product_category |-> "",
     pattern_analysis |-> None,
     seasonal_forecast |-> None,
     new_product_forecast |-> None,
     promotional_analysis |-> None,
     promotional_demand |-> None,
     competitor_analysis |-> None,
     competitor_adjusted_forecast |-> None,
     supply_chain_optimization |-> None,
     scenario_planning |-> None,
     realtime_adjustment |-> None,
     final_forecast |-> None,
     forecast_mode |-> "comprehensive"]

\* the State a run starts from: the defaults, overridden by the fields of
\* the input document that State has
InputState(input) ==
    [k \in DOMAIN StateDefaults |->
        IF k \in DOMAIN input THEN input[k] ELSE StateDefaults[k]]

\* load_and_cleanse_data.  With historical_data supplied the stage reaches
\* the call of validate_data, a name graph.py never imports.
load_and_cleanse_data(state, env) ==
    IF state.historical_data # None
    THEN Raise("NameError")
    ELSE LET product_id == IF state.product_id # "" THEN state.product_id
                           ELSE "PROD001"
             df == generate_mock_sales_data(product_id, env.promotions)
         IN  [historical_data |-> Some(cleanse_data(df)),
              product_info |-> Some(generate_mock_product_info({product_id})),
              competitor_data |->
                 Some(generate_mock_competitor_data(product_id,
                                                    env.competitor_actions)),
              product_id |-> product_id]

\* ChatOpenAI(...) followed by try: llm.invoke(prompt): the constructor
\* stands outside the try and fails without an API key
LLM(env, on_success, on_failure) ==
    IF ~env.api_key THEN Raise("OpenAIError")
    ELSE IF env.llm THEN on_success
    ELSE on_failure

\* analyze_patterns
analyze_patterns(state, env) ==
    IF state.historical_data = None
    THEN [pattern_analysis |->
            Some([error |-> "No historical data available",
                  trends |-> <<>>, seasonality |-> None, anomalies |-> <<>>])]
    ELSE LET df == state.historical_data[1]
             validation == validate_data(df)
             seasonality == IF validation.total_records > SeasonalityRecords
                            THEN "detected" ELSE "insufficient_data"
         IN  IF ~validation.is_valid
             THEN [pattern_analysis |-> Some([error |-> validation.error])]
             ELSE LLM(env,
                      [pattern_analysis |->
                         Some([seasonality |-> seasonality,
                               insights |-> "analysis_text",
                               statistics |-> [mean |-> df.avg_sales]])],
                      [pattern_analysis |->
                         Some([seasonality |-> "unknown",
                               insights |-> "LLM analysis unavailable",
                               statistics |-> [mean |-> df.avg_sales]])])

\* the points of a forecast series
Dates == [i \in 1..Horizon |-> i]

\* forecast_seasonal_demand: the Prophet fit, the moving-average fallback
\* when it fails, an error document when the fallback fails too
forecast_seasonal_demand(state, env) ==
    IF state.historical_data = None
    THEN [seasonal_forecast |->
            Some([error |-> "No historical data available", forecast |-> None])]
    ELSE LET df == state.historical_data[1]
             validation == validate_data(df)
         IN  IF ~validation.is_valid
             THEN [seasonal_forecast |->
                     Some([error |-> validation.error, forecast |-> None])]
             ELSE CASE env.prophet = "ok" ->
                        [seasonal_forecast |->
                           Some([forecast_dates |-> Dates,
                                 forecast_values |-> [i \in 1..Horizon |-> df.avg_sales],
                                 forecast_horizon_days |-> Horizon,
                                 model_components |-> [trend |-> "detected"]])]
                    [] env.prophet = "fallback" ->
                        [seasonal_forecast |->
                           Some([forecast_dates |-> Dates,
                                 forecast_values |-> [i \in 1..Horizon |-> df.recent_avg_sales],
                                 forecast_horizon_days |-> Horizon,
                                 model_components |-> [trend |-> "simple_average"],
                                 warning |-> "Prophet model failed, using simple average"])]
                    [] OTHER ->
                        [seasonal_forecast |->
                           Some([error |-> "Forecast generation failed",
                                 forecast |-> None])]

\* a guard that only asks whether the slot is absent
NoBaseForecast_absent_only(seasonal_forecast) == seasonal_forecast = None

\* `not seasonal_forecast or "forecast_values" not in seasonal_forecast`
NoBaseForecast(seasonal_forecast) ==
    \/ seasonal_forecast = None
    \/ "forecast_values" \notin DOMAIN seasonal_forecast[1]

\* the effectiveness label of a lift, in hundredths of a percent
Effectiveness(lift_percentage) ==
    IF lift_percentage > 3000 THEN "high"
    ELSE IF lift_percentage > 1000 THEN "medium" ELSE "low"

\* analyze_promotional_impact
analyze_promotional_impact(state, env) ==
    IF state.historical_data = None
    THEN [promotional_analysis |-> Some([error |-> "No historical data available"])]
    ELSE LET df == state.historical_data[1]
             lift_percentage ==
                 IF df.avg_non_promo_sales > 0
                 THEN RoundDiv((df.avg_promo_sales - df.avg_non_promo_sales) * 10000,
                               df.avg_non_promo_sales)
                 ELSE 0
             promo_stats == [total_promotions |-> df.promo_days,
                             lift_percentage |-> lift_percentage]
             future_promo_lift ==
                 IF df.promo_days * 10 > df.records * 2
                 THEN RoundDiv(lift_percentage * 8, 10)
                 ELSE lift_percentage
         IN  IF "promotion" \notin df.columns
             THEN [promotional_analysis |->
                     Some([error |-> "No promotional data in historical records"])]
             ELSE IF df.promo_days = 0
             THEN [promotional_analysis |->
                     Some([error |-> "No historical promotions found",
                           recommendation |-> "Consider running a test promotion to gather data"])]
             ELSE LLM(env,
                      [promotional_analysis |->
                         Some([historical_stats |-> promo_stats,
                               predicted_lift_percentage |-> future_promo_lift,
                               effectiveness |-> Effectiveness(lift_percentage),
                               llm_insights |-> "analysis"])],
                      [promotional_analysis |->
                         Some([historical_stats |-> promo_stats,
                               predicted_lift_percentage |-> lift_percentage,
                               effectiveness |-> Effectiveness(lift_percentage),
                               error |-> "LLM analysis failed"])])

\* predict_promotional_demand, called by the graph without promotion_dates:
\* no point of the series is boosted
predict_promotional_demand(state) ==
    IF NoBaseForecast(state.seasonal_forecast)
    THEN [promotional_demand |->
            Some([error |-> "Base forecast required for promotional predictions"])]
    ELSE IF "forecast_values" \notin DOMAIN state.seasonal_forecast[1]
    THEN Raise("KeyError")  \* seasonal_forecast["forecast_values"]
    ELSE LET seasonal_forecast == state.seasonal_forecast[1]
             base_forecast == seasonal_forecast.forecast_values
             promotional_analysis == state.promotional_analysis
             lift == IF promotional_analysis # None
                        /\ "predicted_lift_percentage" \in DOMAIN promotional_analysis[1]
                     THEN promotional_analysis[1].predicted_lift_percentage
                     ELSE 0
         IN  [promotional_demand |->
                Some([forecast_dates |-> seasonal_forecast.forecast_dates,
                      base_forecast |-> base_forecast,
                      promotional_forecast |->
                         [i \in DOMAIN base_forecast |-> base_forecast[i] * 100],
                      promotion_lift |-> lift,
                      promotion_dates |-> <<>>])]

\* the threat level of an average impact score, in hundredths
ThreatLevel(avg_impact) ==
    IF avg_impact > 150 THEN "high"
    ELSE IF avg_impact > 100 THEN "medium" ELSE "low"

\* analyze_competitor_impact
analyze_competitor_impact(state, env) ==
    IF state.competitor_data = None \/ state.competitor_data[1].records = 0
    THEN [competitor_analysis |->
            Some([error |-> "No competitor data available",
                  recommendation |-> "Monitor competitor activities to assess market impact"])]
    ELSE LET df == state.competitor_data[1]
             avg_impact == df.avg_impact_score
             summary == [total_actions |-> df.records,
                         average_impact_score |-> avg_impact]
             impact == [estimated_impact_percentage |-> 0 - avg_impact * 10,
                        threat_level |-> ThreatLevel(avg_impact)]
         IN  LLM(env,
                 [competitor_analysis |->
                    Some([activity_summary |-> summary,
                          demand_impact |-> impact,
                          llm_insights |-> "analysis"])],
                 [competitor_analysis |->
                    Some([activity_summary |-> summary,
                          demand_impact |-> impact,
                          error |-> "LLM analysis failed"])])

\* adjust_forecast_for_competitors
adjust_forecast_for_competitors(state) ==
    IF NoBaseForecast(state.seasonal_forecast)
    THEN [competitor_adjusted_forecast |-> Some([error |-> "Base forecast required"])]
    ELSE IF "forecast_values" \notin DOMAIN state.seasonal_forecast[1]
    THEN Raise("KeyError")  \* seasonal_forecast["forecast_values"]
    ELSE LET seasonal_forecast == state.seasonal_forecast[1]
             base_forecast == seasonal_forecast.forecast_values
             competitor_analysis == state.competitor_analysis
             impact_pct == IF competitor_analysis # None
                              /\ "demand_impact" \in DOMAIN competitor_analysis[1]
                           THEN competitor_analysis[1].demand_impact.estimated_impact_percentage
                           ELSE 0
             impact_adjustment == 10000 + impact_pct
         IN  [competitor_adjusted_forecast |->
                Some([forecast_dates |-> seasonal_forecast.forecast_dates,
                      base_forecast |-> base_forecast,
                      adjusted_forecast |->
                         [i \in DOMAIN base_forecast |->
                             RoundDiv(base_forecast[i] * impact_adjustment, 100)],
                      adjustment_factor |-> impact_adjustment,
                      impact_percentage |-> impact_pct])]

RECURSIVE SeqSum(_)
\* sum(values)
SeqSum(values) ==
    IF values = <<>> THEN 0 ELSE values[1] + SeqSum(Tail(values))

\* optimize_supply_chain: the demand statistics of the result; the safety
\* stock, order quantity and costs derived from them are left out
optimize_supply_chain(state) ==
    IF NoBaseForecast(state.seasonal_forecast)
    THEN [supply_chain_optimization |->
            Some([error |-> "Forecast data required for supply chain optimization"])]
    ELSE IF "forecast_values" \notin DOMAIN state.seasonal_forecast[1]
    THEN Raise("KeyError")  \* seasonal_forecast["forecast_values"]
    ELSE LET forecast_values == state.seasonal_forecast[1].forecast_values
             avg_daily_demand == RoundDiv(SeqSum(forecast_values) * 100,
                                          Len(forecast_values))
         IN  IF forecast_values = <<>>
             THEN [supply_chain_optimization |-> Some([error |-> "Empty forecast data"])]
             ELSE [supply_chain_optimization |->
                     Some([demand_statistics |->
                              [average_daily_demand |-> avg_daily_demand,
                               lead_time_demand |-> avg_daily_demand * LeadTimeDays],
                           service_metrics |->
                              [lead_time_days |-> LeadTimeDays]])]

\* scenarios whose probabilities weigh the optimistic case most
Scenarios_optimistic_first ==
    [optimistic |-> [multiplier |-> 120, probability |-> 50],
     realistic |-> [multiplier |-> 100, probability |-> 20],
     pessimistic |-> [multiplier |-> 80, probability |-> 30]]

\* the scenarios of generate_scenarios: multiplier and probability, in
\* hundredths
Scenarios ==
    [optimistic |-> [multiplier |-> 120, probability |-> 20],
     realistic |-> [multiplier |-> 100, probability |-> 50],
     pessimistic |-> [multiplier |-> 80, probability |-> 30]]

\* generate_scenarios
generate_scenarios(state, env) ==
    IF NoBaseForecast(state.seasonal_forecast)
    THEN [scenario_planning |->
            Some([error |-> "Base forecast required for scenario planning"])]
    ELSE IF "forecast_values" \notin DOMAIN state.seasonal_forecast[1]
    THEN Raise("KeyError")  \* seasonal_forecast["forecast_values"]
    ELSE LET seasonal_forecast == state.seasonal_forecast[1]
             base_forecast == seasonal_forecast.forecast_values
             scenario_forecasts ==
                 [name \in DOMAIN Scenarios |->
                     [i \in DOMAIN base_forecast |->
                         base_forecast[i] * Scenarios[name].multiplier]]
             expected_forecast ==
                 [i \in DOMAIN base_forecast |->
                     RoundDiv(scenario_forecasts.optimistic[i] * Scenarios.optimistic.probability
                              + scenario_forecasts.realistic[i] * Scenarios.realistic.probability
                              + scenario_forecasts.pessimistic[i] * Scenarios.pessimistic.probability,
                              100)]
             scenarios == [name \in DOMAIN Scenarios |->
                             [forecast |-> scenario_forecasts[name],
                              probability |-> Scenarios[name].probability,
                              multiplier |-> Scenarios[name].multiplier]]
         IN  LLM(env,
                 [scenario_planning |->
                    Some([scenarios |-> scenarios,
                          expected_forecast |-> expected_forecast,
                          forecast_dates |-> seasonal_forecast.forecast_dates,
                          llm_analysis |-> "analysis"])],
                 [scenario_planning |->
                    Some([scenarios |-> scenarios,
                          expected_forecast |-> expected_forecast,
                          forecast_dates |-> seasonal_forecast.forecast_dates,
                          error |-> "LLM analysis failed"])])

\* the confidence label of a trend factor, in ten-thousandths
Confidence(trend_factor) ==
    LET deviation == IF trend_factor > 10000 THEN trend_factor - 10000
                     ELSE 10000 - trend_factor
    IN  IF deviation < 1000 THEN "high"
        ELSE IF deviation < 2000 THEN "medium" ELSE "low"

\* adjust_forecast_realtime
adjust_forecast_realtime(state) ==
    IF NoBaseForecast(state.seasonal_forecast)
    THEN [realtime_adjustment |->
            Some([error |-> "Base forecast required for real-time adjustment"])]
    ELSE IF state.historical_data = None \/ state.historical_data[1].records = 0
    THEN [realtime_adjustment |->
            Some([error |-> "Historical data required for adjustment"])]
    ELSE IF "forecast_values" \notin DOMAIN state.seasonal_forecast[1]
    THEN Raise("KeyError")  \* seasonal_forecast["forecast_values"]
    ELSE LET seasonal_forecast == state.seasonal_forecast[1]
             df == state.historical_data[1]
             base_forecast == seasonal_forecast.forecast_values
             trend_factor == IF df.avg_sales > 0
                             THEN RoundDiv(df.recent_avg_sales * 10000, df.avg_sales)
                             ELSE 10000
         IN  [realtime_adjustment |->
                Some([base_forecast |-> base_forecast,
                      adjusted_forecast |->
                         [i \in DOMAIN base_forecast |->
                             RoundDiv(base_forecast[i] * trend_factor, 100)],
                      forecast_dates |-> seasonal_forecast.forecast_dates,
                      adjustment_metrics |-> [trend_factor |-> trend_factor],
                      confidence |-> [level |-> Confidence(trend_factor)]])]

\* the share of the category average a new product sells in week i of its
\* launch, in hundredths; a point of the series stands for a week
WeekMultiplier(i) ==
    IF i = 1 THEN 30 ELSE IF i = 2 THEN 50 ELSE IF i = 3 THEN 70
    ELSE IF i = 4 THEN 85 ELSE 90

\* forecast_new_product
forecast_new_product(state, env) ==
    IF state.new_product_id = ""
    THEN [new_product_forecast |-> Some([error |-> "No new product ID specified"])]
    ELSE IF state.historical_data = None \/ state.product_info = None
    THEN [new_product_forecast |->
            Some([error |-> "Insufficient data for new product forecasting"])]
    ELSE LET historical_data == state.historical_data[1]
             product_info == state.product_info[1]
             avg_sales == historical_data.avg_sales
         IN  IF historical_data.product_ids \cap product_info.product_ids = {}
                \/ historical_data.records = 0
             THEN [new_product_forecast |->
                     Some([error |-> "No historical data available for similar products"])]
             ELSE LLM(env,
                      [new_product_forecast |->
                         Some([product_id |-> state.new_product_id,
                               forecast_values |->
                                  [i \in 1..Horizon |-> avg_sales * WeekMultiplier(i)],
                               confidence |-> "medium",
                               method |-> "similar_product_analysis"])],
                      [new_product_forecast |->
                         Some([product_id |-> state.new_product_id,
                               forecast_values |->
                                  [i \in 1..Horizon |-> avg_sales * WeekMultiplier(1)],
                               confidence |-> "low",
                               method |-> "heuristic_fallback",
                               error |-> "LLM analysis failed"])])

\* route_forecast_mode
route_forecast_mode(state) ==
    IF state.forecast_mode = "new_product" /\ state.new_product_id # ""
    THEN "new_product_forecast"
    ELSE IF state.forecast_mode = "promotional" THEN "promotional_analysis"
    ELSE IF state.forecast_mode = "seasonal" THEN "seasonal_forecast"
    ELSE "seasonal_forecast"

\* graph: add_node
LegacyNodes ==
    {"load_data", "pattern_recognition", "seasonal_forecast",
     "new_product_forecast", "promotional_analysis", "promotional_demand",
     "competitor_analysis", "competitor_adjustment", "supply_chain",
     "scenario_planning", "realtime_adjustment"}

\* graph: add_edge
LegacyEdges ==
    {<<"__start__", "load_data">>,
     <<"load_data", "pattern_recognition">>,
     <<"seasonal_forecast", "promotional_analysis">>,
     <<"promotional_analysis", "promotional_demand">>,
     <<"promotional_demand", "competitor_analysis">>,
     <<"competitor_analysis", "competitor_adjustment">>,
     <<"competitor_adjustment", "supply_chain">>,
     <<"supply_chain", "scenario_planning">>,
     <<"scenario_planning", "realtime_adjustment">>,
     <<"new_product_forecast", "supply_chain">>}

\* the function add_node binds to a stage, applied to a state
StageReturns(n, state, env) ==
    CASE n = "load_data" -> load_and_cleanse_data(state, env)
      [] n = "pattern_recognition" -> analyze_patterns(state, env)
      [] n = "seasonal_forecast" -> forecast_seasonal_demand(state, env)
      [] n = "new_product_forecast" -> forecast_new_product(state, env)
      [] n = "promotional_analysis" -> analyze_promotional_impact(state, env)
      [] n = "promotional_demand" -> predict_promotional_demand(state)
      [] n = "competitor_analysis" -> analyze_competitor_impact(state, env)
      [] n = "competitor_adjustment" -> adjust_forecast_for_competitors(state)
      [] n = "supply_chain" -> optimize_supply_chain(state)
      [] n = "scenario_planning" -> generate_scenarios(state, env)
      [] n = "realtime_adjustment" -> adjust_forecast_realtime(state)

\* the stages scheduled by the stages `done`: the targets of their edges,
\* and after pattern recognition the stage add_conditional_edges routes to
LegacyTriggered(done, state) ==
    {e[2] : e \in {x \in LegacyEdges : x[1] \in done}}
    \cup (IF "pattern_recognition" \in done
          THEN {route_forecast_mode(state)} ELSE {})

\* graph.ainvoke(input)
graph_ainvoke(input, env) ==
    /\ legacyStatus # "running"
    /\ legacyRuns < MaxLegacyRuns
    /\ legacyRuns' = legacyRuns + 1
    /\ legacyState' = InputState(input)
    /\ legacyEnv' = env
    /\ legacyTodo' = LegacyTriggered({"__start__"}, InputState(input))
    /\ legacyRan' = {}
    /\ legacyWrites' = <<>>
    /\ legacyLog' = <<>>
    /\ legacyStatus' = "running"
    /\ UNCHANGED <<alertVars, jobVars, graphVars, outputVars, routeVars, lateVars>>

\* a stage of the superstep in progress runs: it returns its update, or an
\* exception leaves it and with it the run
stage_runs(n) ==
    /\ legacyStatus = "running"
    /\ n \in legacyTodo
    /\ legacyLog' = Append(legacyLog, n)
    /\ LET r == StageReturns(n, legacyState, legacyEnv)
       IN  IF Raised(r)
           THEN /\ legacyStatus' = "raised"
                /\ legacyTodo' = {}
                /\ legacyRan' = {}
                /\ legacyWrites' = <<>>
           ELSE /\ legacyStatus' = "running"
                /\ legacyTodo' = legacyTodo \ {n}
                /\ legacyRan' = legacyRan \cup {n}
                /\ legacyWrites' = r @@ legacyWrites
    /\ UNCHANGED <<legacyState, legacyEnv, legacyRuns, alertVars, jobVars, graphVars, outputVars, routeVars, lateVars>>

\* every stage of the superstep has returned: the updates are applied and
\* the next superstep begins, or the run returns its state
legacy_superstep_ends ==
    /\ legacyStatus = "running"
    /\ legacyTodo = {}
    /\ LET state == ApplyWrites(legacyState, legacyWrites)
           next == LegacyTriggered(legacyRan, state)
       IN  /\ legacyState' = state
           /\ legacyTodo' = next
           /\ legacyStatus' = IF next = {} THEN "returned" ELSE "running"
    /\ legacyWrites' = <<>>
    /\ legacyRan' = {}
    /\ UNCHANGED <<legacyEnv, legacyLog, legacyRuns, alertVars, jobVars, graphVars, outputVars, routeVars, lateVars>>

\* what the surroundings of a run may do: whether an API key is configured,
\* whether the hosted LLM answers, how the Prophet fit ends, and what the
\* random mock data holds
LegacyEnvs ==
    [api_key : BOOLEAN, llm : BOOLEAN, prophet : {"ok", "fallback", "fails"},
     promotions : {0, MockPromotions},
     competitor_actions : {0, MockCompetitorActions}]

\* the forecast modes of Context, and one that is none of them
ForecastModes == {"seasonal", "new_product", "promotional", "comprehensive", "weekly"}

\* input documents: one with no field of State, the modes with and without
\* a new product id, and documents that supply historical data
LegacyInputs ==
    {[changeme |-> "some_val"]}
    \cup {[forecast_mode |-> m, new_product_id |-> id] :
             m \in ForecastModes, id \in {"", "NEW001"}}
    \cup {[forecast_mode |-> m,
           historical_data |-> Some(generate_mock_sales_data("PROD001", 0))] :
             m \in {"comprehensive", "promotional"}}

(***************************************************************************)
(* The output subgraph (agent/subgraph_output.py).  A dict is a record, the *)
(* empty dict the empty record <<>>.  A ratio of two integers is kept as    *)
(* the pair [num, den] and compared by cross-multiplication; for integers  *)
(* this agrees with the floating-point comparisons of the code.  A risk    *)
(* score is a count of hundredths.                                         *)
(***************************************************************************)

\* d.get(key, default)
DictGet(d, key, default) == IF key \in DOMAIN d THEN d[key] ELSE default

\* the fields of types_new.State the output subgraph reads and writes, with
\* their defaults, given the two inputs the caller has filled
OutputState(aggregated_forecasts, aggregated_data) ==
    [aggregated_forecasts |-> aggregated_forecasts,
     aggregated_data |-> aggregated_data,
     capacity_analysis |-> None,
     production_suggestions |-> <<>>,
     alerts_triggered |-> <<>>,
     alert_summary |-> None,
     notification_message |-> None,
     notification_sent |-> FALSE,
     notification_status |-> None]

RECURSIVE SumMaxMonthly(_)
\* sum(line["max_monthly"] for line in production_capacity.values())
SumMaxMonthly(production_capacity) ==
    IF DOMAIN production_capacity = {} THEN 0
    ELSE LET line == CHOOSE l \in DOMAIN production_capacity : TRUE
         IN  production_capacity[line].max_monthly
             + SumMaxMonthly([l \in DOMAIN production_capacity \ {line} |->
                                 production_capacity[l]])

\* num/den as a ratio
Ratio(num, den) == [num |-> num, den |-> den]

\* ratio > p/q and ratio >= p/q, for positive denominators
RatioAbove(ratio, p, q) == ratio.num * q > p * ratio.den
RatioAtLeast(ratio, p, q) == ratio.num * q >= p * ratio.den

\* a status that still counts exactly 85% of capacity as sufficient
capacity_status_inclusive(total_forecast, total_capacity) ==
    IF total_forecast * 100 <= total_capacity * ConstrainedPercent
    THEN "sufficient" ELSE "constrained"

\* "sufficient" if total_forecast < total_capacity * 0.85 else "constrained"
capacity_status(total_forecast, total_capacity) ==
    IF total_forecast * 100 < total_capacity * ConstrainedPercent
    THEN "sufficient" ELSE "constrained"

\* analyze_forecast_vs_capacity
analyze_forecast_vs_capacity(state) ==
    LET aggregated_forecasts == Or(state.aggregated_forecasts, <<>>)
        internal_data == IF state.aggregated_data # None
                         THEN DictGet(state.aggregated_data[1], "internal", <<>>)
                         ELSE <<>>
        production_capacity == DictGet(internal_data, "production_capacity", <<>>)
        total_forecast == DictGet(aggregated_forecasts, "total_forecast_units", 0)
        total_capacity == SumMaxMonthly(production_capacity) * QuarterMonths
    IN  [capacity_analysis |->
            Some([total_forecast_q1 |-> total_forecast,
                  total_capacity_q1 |-> total_capacity,
                  utilization_rate |-> IF total_capacity > 0
                                       THEN Ratio(total_forecast, total_capacity)
                                       ELSE Ratio(0, 1),
                  capacity_status |-> capacity_status(total_forecast, total_capacity),
                  surplus_capacity |-> Max(0, total_capacity - total_forecast),
                  shortfall |-> Max(0, total_forecast - total_capacity)])]

\* forecasts[:n]
Take(s, n) == SubSeq(s, 1, Min(n, Len(s)))

\* generate_production_suggestions
generate_production_suggestions(state) ==
    LET capacity_analysis == Or(state.capacity_analysis, <<>>)
        aggregated_forecasts == Or(state.aggregated_forecasts, <<>>)
        utilization == DictGet(capacity_analysis, "utilization_rate", Ratio(0, 1))
        capacity == [priority |-> IF RatioAbove(utilization, 90, 100) THEN "high"
                                  ELSE IF RatioAbove(utilization, 85, 100) THEN "medium"
                                  ELSE "low",
                     category |-> "capacity"]
        top_forecasts == Take(DictGet(aggregated_forecasts, "forecasts", <<>>), TopProducts)
        inventory == [i \in DOMAIN top_forecasts |->
                        [priority |-> "medium",
                         category |-> "inventory",
                         product_code |-> DictGet(top_forecasts[i], "product_code", None),
                         forecast_units |->
                            DictGet(DictGet(top_forecasts[i], "forecast", <<>>),
                                    "forecast_units", 0)]]
    IN  [production_suggestions |-> <<capacity>> \o inventory]

\* supplier.get("risk_level") == "high"
HighRisk(supplier) == DictGet(supplier, "risk_level", None) = "high"

\* a.get("severity") == "high", == "medium"
HighSeverity(a) == a.severity = "high"
MediumSeverity(a) == a.severity = "medium"

\* generate_risk_alerts
generate_risk_alerts(state) ==
    LET supply_chain_risks == IF state.aggregated_data # None
                              THEN DictGet(state.aggregated_data[1], "supply_chain", <<>>)
                              ELSE <<>>
        capacity_analysis == Or(state.capacity_analysis, <<>>)
        overall_risk == DictGet(supply_chain_risks, "overall_risk_score", 0)
        risk == IF overall_risk > 30
                THEN <<[alert_type |-> "supply_chain_risk",
                        severity |-> IF overall_risk > 50 THEN "high" ELSE "medium",
                        message |-> <<"risk score", overall_risk>>]>>
                ELSE <<>>
        constraint == IF DictGet(capacity_analysis, "capacity_status", None) = "constrained"
                      THEN <<[alert_type |-> "capacity_constraint",
                              severity |-> "high",
                              message |-> <<"may fall short by",
                                            DictGet(capacity_analysis, "shortfall", 0)>>]>>
                      ELSE <<>>
        risky == SelectSeq(DictGet(supply_chain_risks, "supplier_status", <<>>), HighRisk)
        suppliers == [i \in DOMAIN risky |->
                        [alert_type |-> "supplier_risk",
                         severity |-> "high",
                         message |-> <<"high risk level", DictGet(risky[i], "name", None)>>]]
        alerts_triggered == risk \o constraint \o suppliers
    IN  [alerts_triggered |-> alerts_triggered,
         alert_summary |->
            Some([total_alerts |-> Len(alerts_triggered),
                  high_severity |-> Len(SelectSeq(alerts_triggered, HighSeverity)),
                  medium_severity |-> Len(SelectSeq(alerts_triggered, MediumSeverity))])]

\* build_notification_message
build_notification_message(state) ==
    LET aggregated_forecasts == Or(state.aggregated_forecasts, <<>>)
        production_suggestions == state.production_suggestions
        triggered == state.alerts_triggered
        urgent == SelectSeq(triggered, HighSeverity)
        top == Take(production_suggestions, TopProducts)
    IN  [notification_message |->
            Some([subject |-> "Q1 2025 Demand Forecast - Action Required",
                  summary |->
                     [total_products |-> DictGet(aggregated_forecasts, "total_products", 0),
                      total_forecast |-> DictGet(aggregated_forecasts,
                                                 "total_forecast_units", 0)],
                  recommendations |-> [i \in DOMAIN top |-> top[i].category],
                  attention |-> [i \in DOMAIN urgent |-> urgent[i].message],
                  recipients |-> <<"production_planning@denso.com",
                                   "supply_chain@denso.com">>,
                  priority |-> IF urgent # <<>> THEN "high" ELSE "normal"])]

\* send_notification: the mock delivery
send_notification(state) ==
    LET notification_message == Or(state.notification_message, <<>>)
    IN  [notification_sent |-> TRUE,
         notification_status |->
            Some([sent |-> TRUE,
                  recipients_count |->
                     Len(DictGet(notification_message, "recipients", <<>>)),
                  method |-> "mock"])]

\* create_output_subgraph: add_node
OutputNodes ==
    {"analyze_capacity", "generate_suggestions", "generate_alerts",
     "build_message", "send_notification"}

\* a wiring in which capacity analysis also leads straight to the message
OutputEdges_direct_message ==
    {<<"__start__", "analyze_capacity">>,
     <<"analyze_capacity", "generate_suggestions">>,
     <<"analyze_capacity", "generate_alerts">>,
     <<"analyze_capacity", "build_message">>,
     <<"generate_suggestions", "build_message">>,
     <<"generate_alerts", "build_message">>,
     <<"build_message", "send_notification">>}

\* create_output_subgraph: add_edge, one call per pair
OutputEdges ==
    {<<"__start__", "analyze_capacity">>,
     <<"analyze_capacity", "generate_suggestions">>,
     <<"analyze_capacity", "generate_alerts">>,
     <<"generate_suggestions", "build_message">>,
     <<"generate_alerts", "build_message">>,
     <<"build_message", "send_notification">>}

\* the function add_node binds to a node, applied to a state
OutputNodeReturns(n, state) ==
    CASE n = "analyze_capacity" -> analyze_forecast_vs_capacity(state)
      [] n = "generate_suggestions" -> generate_production_suggestions(state)
      [] n = "generate_alerts" -> generate_risk_alerts(state)
      [] n = "build_message" -> build_notification_message(state)
      [] n = "send_notification" -> send_notification(state)

\* the nodes an edge from one of `done` leads to
OutputTriggered(done) == {e[2] : e \in {x \in OutputEdges : x[1] \in done}}

\* run_output_subgraph: subgraph.ainvoke(state)
run_output_subgraph(aggregated_forecasts, aggregated_data) ==
    /\ outStatus # "running"
    /\ outRuns < MaxOutputRuns
    /\ outRuns' = outRuns + 1
    /\ outState' = OutputState(aggregated_forecasts, aggregated_data)
    /\ outTodo' = OutputTriggered({"__start__"})
    /\ outRan' = {}
    /\ outWrites' = <<>>
    /\ outLog' = <<>>
    /\ outStatus' = "running"
    /\ UNCHANGED <<alertVars, jobVars, graphVars, legacyVars, routeVars, lateVars>>

\* a node of the superstep in progress finishes and returns its update
output_node_finishes(n) ==
    /\ outStatus = "running"
    /\ n \in outTodo
    /\ outTodo' = outTodo \ {n}
    /\ outRan' = outRan \cup {n}
    /\ outWrites' = OutputNodeReturns(n, outState) @@ outWrites
    /\ outLog' = Append(outLog, n)
    /\ UNCHANGED <<outState, outStatus, outRuns, alertVars, jobVars, graphVars, legacyVars, routeVars, lateVars>>

\* every node of the superstep has finished: the updates are applied and
\* the next superstep begins, or the invocation returns
output_superstep_ends ==
    /\ outStatus = "running"
    /\ outTodo = {}
    /\ outState' = ApplyWrites(outState, outWrites)
    /\ outWrites' = <<>>
    /\ outRan' = {}
    /\ outTodo' = OutputTriggered(outRan)
    /\ outStatus' = IF OutputTriggered(outRan) = {} THEN "returned" ELSE "running"
    /\ UNCHANGED <<outLog, outRuns, alertVars, jobVars, graphVars, legacyVars, routeVars, lateVars>>

\* production lines: none, one small line, and the three lines the
\* data-collection subgraph reports
CapacityInputs ==
    {<<>>,
     [LineA |-> [max_monthly |-> SmallLine]],
     [LineA |-> [max_monthly |-> 2500], LineB |-> [max_monthly |-> 2000],
      LineC |-> [max_monthly |-> 3000]]}

\* total forecast units around 85% of the capacities above
ForecastUnitInputs == {0, 50, 51, 52, 54, 55, 60, 61, 19125, 22501}

\* the aggregated forecasts a caller may pass
AggregatedForecastInputs ==
    {None}
    \cup {Some([total_forecast_units |-> u, total_products |-> 1,
                forecasts |-> <<[product_code |-> "P1",
                                 forecast |-> [forecast_units |-> u]]>>]) :
             u \in ForecastUnitInputs}

\* the aggregated data a caller may pass
AggregatedDataInputs ==
    {None, Some(<<>>)}
    \cup {Some([internal |-> [production_capacity |-> c],
                supply_chain |-> [overall_risk_score |-> r,
                                  supplier_status |->
                                     <<[name |-> "S1", risk_level |-> "low"],
                                       [name |-> "S2", risk_level |-> l]>>]]) :
             c \in CapacityInputs, r \in {25, 40, 60}, l \in {"low", "high"}}

(***************************************************************************)
(* The job routes (app/api/job_routes.py) over the task queue.  A path     *)
(* segment is a record: [text |-> s] for a word, [uuid |-> n] for the n-th *)
(* generated task id.  The result backend maps a task id to its state and  *)
(* result; an id it has never heard of reads as PENDING with no result.    *)
(***************************************************************************)

Word(s) == [text |-> s]
Uuid(n) == [uuid |-> n]

\* an element of a route's path: a fixed word, or a path parameter
Literal(s) == [literal |-> Word(s)]
Param(name) == [param |-> name]

\* router: the routes in the order the decorators register them
JobRoutes ==
    <<[method |-> "POST", path |-> <<Literal("forecast"), Literal("trigger")>>,
       endpoint |-> "trigger_forecast"],
      [method |-> "GET", path |-> <<Literal("forecast"), Param("job_id")>>,
       endpoint |-> "get_job_status"],
      [method |-> "GET", path |-> <<Literal("forecast"), Literal("history")>>,
       endpoint |-> "get_job_history"],
      [method |-> "POST",
       path |-> <<Literal("forecast"), Param("job_id"), Literal("cancel")>>,
       endpoint |-> "cancel_job"],
      [method |-> "GET", path |-> <<Literal("stats")>>,
       endpoint |-> "get_celery_stats"]>>

\* a route's path matches a request path: a parameter takes any segment
PathMatches(pattern, path) ==
    /\ Len(pattern) = Len(path)
    /\ \A i \in DOMAIN pattern :
          "param" \in DOMAIN pattern[i] \/ pattern[i].literal = path[i]

\* the endpoint that serves a request: the first registered route whose
\* method and path match
Dispatch(method, path) ==
    LET matching == {i \in DOMAIN JobRoutes :
                        /\ JobRoutes[i].method = method
                        /\ PathMatches(JobRoutes[i].path, path)}
    IN  IF matching = {} THEN "not_found"
        ELSE JobRoutes[CHOOSE i \in matching : \A j \in matching : i <= j].endpoint

\* a response of a job route
HttpResponse(op, req, status, body) ==
    [op |-> op, req |-> req, status |-> status, body |-> body]

\* AsyncResult(job_id).state and .info
TaskState(backend, job_id) ==
    IF job_id \in DOMAIN backend THEN backend[job_id].status ELSE "PENDING"
TaskInfo(backend, job_id) ==
    IF job_id \in DOMAIN backend THEN backend[job_id].result ELSE None

\* what the backend holds as the result of a task: the dict a started task
\* is marked with, the document a task returned, the exception it raised
StartedInfo == [pid |-> 1, hostname |-> "worker"]
ExceptionInfo(text) == [exception |-> text]
IsException(info) == "exception" \in DOMAIN info

\* `info.get(key, 0) if info else 0` raises: an exception object is truthy
\* and has no get
InfoGetRaises(info) ==
    info # None /\ info # Some(<<>>) /\ IsException(info[1])

\* `info.get(key, 0) if info else 0` where it does not raise
InfoGet(info, key) ==
    IF info = None \/ info = Some(<<>>) THEN 0 ELSE DictGet(info[1], key, 0)

\* trigger_forecast: run_scheduled_forecast.delay()
trigger_forecast(req, sent, job_id) ==
    IF sent
    THEN HttpResponse("trigger_forecast", req, 202,
                      [job_id |-> job_id, status |-> "pending",
                       message |-> "Forecast job triggered successfully"])
    ELSE HttpResponse("trigger_forecast", req, 500,
                      [detail |-> "Failed to trigger job"])

\* get_job_status
get_job_status(req, backend, job_id) ==
    LET state == TaskState(backend, job_id)
        info == TaskInfo(backend, job_id)
        response == [job_id |-> job_id, status |-> state,
                     result |-> None, error |-> None]
        failed == HttpResponse("get_job_status", req, 500,
                               [detail |-> "Failed to get job status"])
        ok(body) == HttpResponse("get_job_status", req, 200, body)
    IN  CASE state = "PENDING" ->
                ok(response @@ [message |-> "Job is pending execution"])
          [] state = "STARTED" ->
                IF InfoGetRaises(info) THEN failed
                ELSE ok(response @@ [message |-> "Job is running",
                                     progress |-> InfoGet(info, "progress")])
          [] state = "SUCCESS" ->
                ok([response EXCEPT !.result = info]
                   @@ [message |-> "Job completed successfully"])
          [] state = "FAILURE" ->
                ok([response EXCEPT !.error = Some(info[1].exception)]
                   @@ [message |-> "Job failed"])
          [] state = "RETRY" ->
                IF InfoGetRaises(info) THEN failed
                ELSE ok(response @@ [message |-> "Job is being retried",
                                     retry_count |-> InfoGet(info, "retries")])
          [] OTHER -> ok(response)

\* get_job_history
get_job_history(req, limit) ==
    HttpResponse("get_job_history", req, 200,
                 [jobs |-> <<>>, total |-> 0,
                  message |-> "Job history tracking not yet implemented"])

\* a cancel that asks for a revoke whatever the state is
CancelRevokes_always(state) == TRUE

\* cancel_job: the states in which task_result.revoke(terminate=True) is
\* called
CancelRevokes(state) == state \in {"PENDING", "STARTED"}

\* cancel_job: the response
cancel_job(req, backend, job_id) ==
    LET state == TaskState(backend, job_id)
    IN  IF CancelRevokes(state)
        THEN HttpResponse("cancel_job", req, 200,
                          [job_id |-> job_id, status |-> "cancelled",
                           message |-> "Job cancelled successfully"])
        ELSE HttpResponse("cancel_job", req, 200,
                          [job_id |-> job_id, status |-> state,
                           message |-> <<"Job cannot be cancelled (current state:",
                                         state>>])

\* POST /jobs/forecast/trigger; `sent` tells whether the broker took the
\* message
post_forecast_trigger(sent) ==
    LET req == [method |-> "POST", path |-> <<Word("forecast"), Word("trigger")>>]
        job_id == Uuid(sentJobs + 1)
    IN  /\ sentJobs < MaxTriggers
        /\ Dispatch(req.method, req.path) = "trigger_forecast"
        /\ ret' = trigger_forecast(req, sent, job_id)
        /\ sentJobs' = IF sent THEN sentJobs + 1 ELSE sentJobs
        /\ queue' = IF sent THEN queue \cup {job_id} ELSE queue
        /\ UNCHANGED <<results, revoked, alerts, next_id, now, jobVars,
                       graphVars, legacyVars, outputVars, lateVars>>

\* GET /jobs/forecast/<segment>?limit=<limit>
get_forecast(segment, limit) ==
    LET req == [method |-> "GET", path |-> <<Word("forecast"), segment>>,
                limit |-> limit]
        endpoint == Dispatch(req.method, req.path)
    IN  /\ ret' = CASE endpoint = "get_job_status" ->
                          get_job_status(req, results, segment)
                    [] endpoint = "get_job_history" ->
                          get_job_history(req, limit)
        /\ UNCHANGED <<results, queue, revoked, sentJobs, alerts, next_id, now,
                       jobVars, graphVars, legacyVars, outputVars, lateVars>>

\* POST /jobs/forecast/<segment>/cancel
post_forecast_cancel(segment) ==
    LET req == [method |-> "POST",
                path |-> <<Word("forecast"), segment, Word("cancel")>>]
    IN  /\ Dispatch(req.method, req.path) = "cancel_job"
        /\ ret' = cancel_job(req, results, segment)
        /\ revoked' = IF CancelRevokes(TaskState(results, segment))
                      THEN revoked \cup {segment} ELSE revoked
        /\ UNCHANGED <<results, queue, sentJobs, alerts, next_id, now, jobVars,
                       graphVars, legacyVars, outputVars, lateVars>>

\* the retries a task request has made so far
Retries(backend, job_id) ==
    IF job_id \in DOMAIN backend THEN backend[job_id].retries ELSE 0

\* a worker takes a task off the queue: a revoked one is discarded, any
\* other is marked started (task_track_started)
worker_receives(job_id) ==
    /\ job_id \in queue
    /\ queue' = queue \ {job_id}
    /\ results' =
          (job_id :> [status |-> IF job_id \in revoked
                                 THEN "REVOKED" ELSE "STARTED",
                      result |-> IF job_id \in revoked
                                 THEN Some(ExceptionInfo("revoked"))
                                 ELSE Some(StartedInfo),
                      retries |-> Retries(results, job_id)])
          @@ results
    /\ UNCHANGED <<revoked, sentJobs, alertVars, jobVars, graphVars,
                   legacyVars, outputVars, lateVars>>

\* run_scheduled_forecast ends on its worker: it returns its summary, or an
\* exception reaches self.retry(exc=exc), which queues the request again
\* while retries remain and fails the task otherwise
task_ends(job_id, raises) ==
    /\ TaskState(results, job_id) = "STARTED"
    /\ LET meta == results[job_id]
           after == IF ~raises THEN "SUCCESS"
                    ELSE TaskRetry(meta.retries, MaxRetries)
       IN  /\ results' =
                 [results EXCEPT ![job_id] =
                     CASE after = "SUCCESS" ->
                            [meta EXCEPT !.status = "SUCCESS",
                                         !.result = Some([status |-> "completed"])]
                       [] after = "RETRY" ->
                            [status |-> "RETRY",
                             result |-> Some(ExceptionInfo("connect failed")),
                             retries |-> meta.retries + 1]
                       [] after = "FAILURE" ->
                            [meta EXCEPT !.status = "FAILURE",
                                         !.result = Some(ExceptionInfo("connect failed"))]]
           /\ queue' = IF after = "RETRY" THEN queue \cup {job_id} ELSE queue
    /\ UNCHANGED <<revoked, sentJobs, alertVars, jobVars, graphVars,
                   legacyVars, outputVars, lateVars>>

\* revoke(terminate=True) reaches the worker that runs the task
worker_terminates(job_id) ==
    /\ TaskState(results, job_id) = "STARTED"
    /\ job_id \in revoked
    /\ results' = [results EXCEPT ![job_id] =
                      [@ EXCEPT !.status = "REVOKED",
                                !.result = Some(ExceptionInfo("terminated"))]]
    /\ UNCHANGED <<queue, revoked, sentJobs, alertVars, jobVars, graphVars,
                   legacyVars, outputVars, lateVars>>

\* the task ids a request may name: those generated, and one never issued
JobIdInputs == {Uuid(n) : n \in 1..(MaxTriggers + 1)}

\* the last segment of GET /jobs/forecast/...
SegmentInputs == JobIdInputs \cup {Word("history")}

\* the limit query parameter: left out, or a value
LimitInputs == {None, Some(1), Some(100)}

(***************************************************************************)
(* database/connection.py: the connection manager.  A pool is named by the *)
(* order of its creation.                                                  *)
(***************************************************************************)

\* a connect that creates a pool whether or not one is open
ConnectCreates_always(pool) == TRUE

\* Database.connect: `if self.pool is None`
ConnectCreates(pool) == pool = None

\* Database.disconnect: `if self.pool` (a pool object is truthy)
DisconnectCloses(pool) == pool # None

\* Database.connect; `created` tells whether asyncpg.create_pool returns a
\* pool or raises
connect(created) ==
    /\ Len(dbCalls) < MaxCalls
    /\ IF ~ConnectCreates(dbPool)
       THEN /\ dbCalls' = Append(dbCalls, "connect")
            /\ UNCHANGED <<dbPool, dbPools>>
       ELSE IF created
       THEN /\ dbPools' = Append(dbPools, "open")
            /\ dbPool' = Some(Len(dbPools) + 1)
            /\ dbCalls' = Append(dbCalls, "connect")
       ELSE /\ dbCalls' = Append(dbCalls, "connect raised")
            /\ UNCHANGED <<dbPool, dbPools>>
    /\ UNCHANGED <<alertVars, jobVars, graphVars, legacyVars, outputVars,
                   routeVars, applied, inflight>>

\* Database.disconnect
disconnect ==
    /\ Len(dbCalls) < MaxCalls
    /\ dbCalls' = Append(dbCalls, "disconnect")
    /\ IF DisconnectCloses(dbPool)
       THEN /\ dbPools' = [dbPools EXCEPT ![dbPool[1]] = "closed"]
            /\ dbPool' = None
       ELSE UNCHANGED <<dbPool, dbPools>>
    /\ UNCHANGED <<alertVars, jobVars, graphVars, legacyVars, outputVars,
                   routeVars, applied, inflight>>

(***************************************************************************)
(* A stage or a service called on its own: `applied` holds the function,   *)
(* its arguments with what its surroundings do, and what the call did.     *)
(***************************************************************************)

NotApplied == [fn |-> "none", input |-> <<>>, output |-> <<>>]

\* one call of fn, on a fresh process
Apply(fn, input, output) ==
    /\ applied = NotApplied
    /\ applied' = [fn |-> fn, input |-> input, output |-> output]
    /\ UNCHANGED <<alertVars, jobVars, graphVars, legacyVars, outputVars,
                   routeVars, managerVars, inflight>>

(***************************************************************************)
(* agent/nodes_category_processing.py: one category batch.                 *)
(***************************************************************************)

\* category_products_mock.CATEGORY_PRODUCTS
CATEGORY_PRODUCTS ==
    [Spark_Plugs |->
        [category_name |-> "Spark Plugs",
         products |-> <<"BUGI-IRIDIUM-VCH20", "BUGI-PLATIN-PK16TT">>],
     AC_System |->
        [category_name |-> "Air Conditioning System",
         products |-> <<"AC-COMPRESSOR-6SEU14C", "AC-EVAPORATOR-CORE",
                        "AC-CONDENSER-CORE">>]]

\* get_category_info: CATEGORY_PRODUCTS.get(category, {})
get_category_info(category) == DictGet(CATEGORY_PRODUCTS, category, <<>>)

\* get_product_by_code
get_product_by_code(product_code) ==
    LET found == {c \in DOMAIN CATEGORY_PRODUCTS :
                     product_code \in Range(CATEGORY_PRODUCTS[c].products)}
    IN  IF found = {} THEN Raise("ValueError")
        ELSE [product_code |-> product_code,
              category |-> CHOOSE c \in found : TRUE,
              product_name |-> <<"name of", product_code>>]

\* retrieve_category_context: the documents of the vector store, the
\* category's mock documents when the store has none, a default document
\* when the embedding service or the store fails
retrieve_category_context(category, category_info, env) ==
    LET category_name == DictGet(category_info, "category_name", category)
        relevant_insights ==
            CASE env.store = "fails" ->
                    <<[content |-> <<"General market data for", category_name>>,
                       type |-> "fallback"]>>
              [] env.store = "hits" ->
                    <<[content |-> "stored document", type |-> "Unknown"]>>
              [] env.store = "empty" ->
                    IF category_name = "Spark Plugs"
                    THEN <<[content |-> "spark plug demand increasing",
                            type |-> "market_report"],
                           [content |-> "Iridium spark plug adoption rate up",
                            type |-> "market_trend"]>>
                    ELSE <<[content |-> "AC component market forecast to grow",
                            type |-> "market_forecast"],
                           [content |-> "Compressor and evaporator demand surge",
                            type |-> "market_insight"]>>
    IN  IF ~env.embedding_key THEN Raise("ValueError")
        ELSE [category |-> category,
              category_context |-> relevant_insights,
              context_count |-> Len(relevant_insights)]

\* analyze_category_with_api; confidence in hundredths.  `at` is the clock
\* reading the analysis stamps its insight with
analyze_category_with_api(category, category_info, category_context, env, at) ==
    LET category_name == DictGet(category_info, "category_name", category)
        category_insight ==
            CASE env.llm = "json" ->
                    [category |-> category, category_name |-> category_name,
                     insight |-> "parsed insight",
                     key_findings |-> <<"growth">>, confidence |-> 85,
                     analysis_timestamp |-> at, model_used |-> "model"]
              [] env.llm = "text" ->
                    [category |-> category, category_name |-> category_name,
                     insight |-> "response text",
                     key_findings |-> <<"Analysis completed",
                                        "See insight for details">>,
                     confidence |-> 70,
                     analysis_timestamp |-> at, model_used |-> "model"]
              [] env.llm = "fails" ->
                    [category |-> category, category_name |-> category_name,
                     insight |-> <<"Market analysis for", category,
                                   [i \in DOMAIN category_context |->
                                       category_context[i].content]>>,
                     key_findings |-> <<"Market growth trend detected",
                                        "Regional demand patterns identified",
                                        "Seasonal variations observed">>,
                     confidence |-> 60,
                     analysis_timestamp |-> at, model_used |-> "fallback"]
    IN  IF ~env.xai_key THEN Raise("ValueError")
        ELSE [category |-> category, category_insight |-> category_insight]

\* fused data that carry an insight of the product's own
FusedData_own_insight(product_code, product_data, category, category_insight) ==
    [product_code |-> product_code,
     internal_data |-> product_data,
     market_insight |-> [category_insight EXCEPT !.insight = product_code],
     combined_features |-> [category |-> category,
                            market_signal |-> category_insight.key_findings,
                            historical_trend |-> "increasing"]]

\* process_category_batch: the fused data of one product
FusedData(product_code, product_data, category, category_insight) ==
    [product_code |-> product_code,
     internal_data |-> product_data,
     market_insight |-> category_insight,
     combined_features |-> [category |-> category,
                            market_signal |-> category_insight.key_findings,
                            historical_trend |-> "increasing"]]

\* generate_category_forecast: the model's forecast, or the rule-based one
\* when the model fails
generate_category_forecast(product_code, fused_data, env) ==
    IF env.prophet
    THEN [product_code |-> product_code,
          method |-> "prophet_with_category_insight",
          model_confidence |-> Some(fused_data.market_insight.confidence)]
    ELSE [product_code |-> product_code,
          method |-> "fallback_rule_based",
          model_confidence |-> None]

\* process_category_batch: the calls of its loop over the products; a
\* product that is not found is skipped
RECURSIVE ProductCalls(_)
ProductCalls(products) ==
    IF products = <<>> THEN <<>>
    ELSE (IF Raised(get_product_by_code(Head(products)))
          THEN <<"get_product_by_code">>
          ELSE <<"get_product_by_code", "generate_category_forecast">>)
         \o ProductCalls(Tail(products))

\* process_category_batch on the batch at batch_index: the calls it makes in
\* order, the fused data it builds, and what it returns or raises
ProcessBatch(batch_index, category_batch, category, products, env) ==
    LET category_info == get_category_info(category)
        context_result == retrieve_category_context(category, category_info, env)
        analysis_result ==
            analyze_category_with_api(category, category_info,
                                      context_result.category_context, env, 1)
        category_insight == analysis_result.category_insight
        processed == SelectSeq(products,
                               LAMBDA c : ~Raised(get_product_by_code(c)))
        fused_data == [i \in DOMAIN processed |->
                     FusedData(processed[i], get_product_by_code(processed[i]),
                               category, category_insight)]
        completed ==
            [i \in DOMAIN processed |->
                [product_code |-> processed[i],
                 product_name |-> get_product_by_code(processed[i]).product_name,
                 category |-> category,
                 forecast |-> generate_category_forecast(processed[i], fused_data[i], env),
                 used_shared_category_insight |-> TRUE]]
        calls(done) == <<"get_category_info", "retrieve_category_context">>
                       \o done
    IN  IF Raised(context_result)
        THEN [calls |-> calls(<<>>), fused |-> <<>>, ret |-> context_result]
        ELSE IF Raised(analysis_result)
        THEN [calls |-> calls(<<"analyze_category_with_api">>),
              fused |-> <<>>, ret |-> analysis_result]
        ELSE [calls |-> calls(<<"analyze_category_with_api">>)
                        \o ProductCalls(products),
              fused |-> fused_data,
              ret |-> [batch_index |-> batch_index,
                       category |-> category,
                       category_name |-> DictGet(category_batch, "category_name", None),
                       batch_results |-> completed,
                       products_processed |-> Len(completed),
                       shared_category_insight |-> category_insight]]

\* process_category_batch
process_category_batch(batch_index, category_batches, env) ==
    IF batch_index >= Len(category_batches)
    THEN [calls |-> <<>>, fused |-> <<>>, ret |-> [batch_results |-> <<>>]]
    ELSE ProcessBatch(batch_index, category_batches[batch_index + 1],
                      category_batches[batch_index + 1].category,
                      category_batches[batch_index + 1].products, env)

\* what the surroundings of a batch do: the two API keys set or not, the
\* vector store, the hosted LLM, the forecasting model
BatchEnvs ==
    [embedding_key : BOOLEAN, xai_key : BOOLEAN,
     store : {"hits", "empty", "fails"}, llm : {"json", "text", "fails"},
     prophet : BOOLEAN]

\* product-code lists of up to MaxProducts codes, known and unknown
ProductLists ==
    UNION {[1..n -> {"BUGI-IRIDIUM-VCH20", "AC-COMPRESSOR-6SEU14C", "UNKNOWN"}] :
              n \in 0..MaxProducts}

\* state.category_batches: no batch, or one batch
CategoryBatchInputs ==
    {<<>>} \cup
    {<<[category |-> c,
        category_name |-> DictGet(get_category_info(c), "category_name", c),
        products |-> ps]>> : c \in {"Spark_Plugs", "AC_System"}, ps \in ProductLists}

\* a category batch is processed
batch_processed(batch_index, category_batches, env) ==
    Apply("process_category_batch",
          [batch_index |-> batch_index, category_batches |-> category_batches,
           env |-> env],
          process_category_batch(batch_index, category_batches, env))

(***************************************************************************)
(* agent/nodes_product_processing.py: the legacy split into batches.       *)
(***************************************************************************)

\* internal_data_mock.get_all_product_codes: the keys of INTERNAL_PRODUCT_DATA
InternalProductCodes == <<"INV-001", "INV-002", "INV-003", "INV-004", "INV-005">>

\* seq[start:end] with 0 <= start: the elements at the 0-based positions
\* start .. end-1 that exist
PySlice(seq, start, end) ==
    LET last == Min(end, Len(seq))
    IN  IF start >= last THEN <<>>
        ELSE [i \in 1..(last - start) |-> seq[start + i]]

\* a batch size that rounds the fifth up
BatchSize_rounded_up(n) == (n + Batches - 1) \div Batches

\* split_product_batches: len(product_codes) // 5, 1 when that is 0
BatchSize(n) == IF n \div Batches = 0 THEN 1 ELSE n \div Batches

\* split_product_batches: the batches of range(5) that are not empty
RECURSIVE SplitFrom(_, _)
SplitFrom(product_codes, i) ==
    IF i >= Batches THEN <<>>
    ELSE LET batch_size == BatchSize(Len(product_codes))
             start_idx == i * batch_size
             end_idx == IF i < Batches - 1 THEN start_idx + batch_size
                        ELSE Len(product_codes)
             batch == PySlice(product_codes, start_idx, end_idx)
         IN  (IF batch # <<>> THEN <<batch>> ELSE <<>>)
             \o SplitFrom(product_codes, i + 1)

\* split_product_batches
split_product_batches(state_product_codes) ==
    LET product_codes == IF state_product_codes = <<>> THEN InternalProductCodes
                         ELSE state_product_codes
        batches == SplitFrom(product_codes, 0)
    IN  [product_batches |-> batches,
         total_batches |-> Len(batches),
         total_products |-> Len(product_codes)]

\* state.product_codes: lists of up to MaxCodes codes
ProductCodeInputs ==
    UNION {[1..n -> {"INV-001", "INV-002"}] : n \in 0..MaxCodes}

\* the split node runs on a state
products_split(product_codes) ==
    Apply("split_product_batches", product_codes,
          split_product_batches(product_codes))

(***************************************************************************)
(* agent/scenario_planning.py and agent/promotional_analysis.py called on  *)
(* their own.                                                              *)
(***************************************************************************)

\* base forecasts of up to MaxPoints points, the flat 100 among them
BaseForecastInputs ==
    UNION {[1..n -> {0, 1, 50, BaseDemand, 150}] : n \in 0..MaxPoints}

\* state.seasonal_forecast: absent, or a forecast document
SeasonalForecastInputs ==
    {None} \cup {Some([forecast_values |-> fv,
                       forecast_dates |-> [i \in DOMAIN fv |-> i]]) :
                    fv \in BaseForecastInputs}

\* the hosted LLM of a stage: its API key set or not, its call succeeding
\* or not
LLMEnvs == [api_key : BOOLEAN, llm : BOOLEAN]

\* scenario planning runs on a state
scenarios_generated(seasonal_forecast, env) ==
    Apply("generate_scenarios",
          [seasonal_forecast |-> seasonal_forecast, env |-> env],
          generate_scenarios([StateDefaults EXCEPT
                                 !.seasonal_forecast = seasonal_forecast], env))

\* historical data as promotional analysis reads it: the records, the
\* promotional days among them, and the mean sales of both kinds of day
PromoDataInputs ==
    {None} \cup
    {Some([columns |-> cols, records |-> PromoRecords, promo_days |-> p,
           avg_promo_sales |-> a, avg_non_promo_sales |-> b]) :
        cols \in {{"date", "sales"}, {"date", "sales", "promotion"}},
        p \in {0, 1, 2, 3, 5}, a \in {100, 125, PromotionalBoost},
        b \in {0, BaseDemand}}

\* promotional analysis runs on a state
promotions_analysed(historical_data, env) ==
    Apply("analyze_promotional_impact",
          [historical_data |-> historical_data, env |-> env],
          analyze_promotional_impact([StateDefaults EXCEPT
                                         !.historical_data = historical_data], env))

(***************************************************************************)
(* services/chromadb_service.py.  A call's outcome is [returns |-> value]  *)
(* or a raised exception; risk scores and similarities are in hundredths.  *)
(***************************************************************************)

Returns(value) == [returns |-> value]

\* the documents of the collection, nearest first for any query text
NewsDocuments ==
    <<[id |-> "n1", text |-> "port strike",
       metadata |-> [category |-> "supply_chain", risk_score |-> 90]],
      [id |-> "n2", text |-> "new entrant",
       metadata |-> [category |-> "competition", risk_score |-> 40]],
      [id |-> "n3", text |-> "chip shortage",
       metadata |-> [category |-> "supply_chain", risk_score |-> 70]]>>

\* a metadata filter of the store: none, an equality on category, or a
\* lower bound ($gte) on risk_score
WhereMatches(where_filter, metadata) ==
    \/ where_filter = None
    \/ /\ "category" \in DOMAIN where_filter[1]
       /\ metadata.category = where_filter[1].category
    \/ /\ "risk_score" \in DOMAIN where_filter[1]
       /\ metadata.risk_score >= where_filter[1].risk_score.gte

\* ChromaDBService.get_collection on a service that holds no collection:
\* get_collection of the client, create_collection when that raises
get_collection(env) ==
    CASE env.collection = "exists" -> Returns("collection")
      [] env.collection = "missing" -> Returns("created collection")
      [] env.collection = "unreachable" -> Raise("ConnectionError")

\* ChromaDBService.query_recent_news; env.query tells whether the store's
\* query or get succeeds
query_recent_news(query_text, n_results, where_filter, env) ==
    LET collection == get_collection(env)
        found == Take(SelectSeq(IF env.collection = "exists" THEN NewsDocuments
                                ELSE <<>>,
                                LAMBDA d : WhereMatches(where_filter, d.metadata)),
                      n_results)
    IN  IF Raised(collection) THEN collection
        ELSE IF ~env.query THEN Returns(<<>>)
        ELSE IF Truthy(query_text)
        THEN Returns([i \in DOMAIN found |->
                         [id |-> found[i].id, text |-> found[i].text,
                          metadata |-> found[i].metadata,
                          similarity |-> Some(100 - 10 * i)]])
        ELSE Returns([i \in DOMAIN found |->
                         [id |-> found[i].id, text |-> found[i].text,
                          metadata |-> found[i].metadata]])

\* `await x` where x is the outcome of a plain (non-async) call: a raised
\* exception propagates, a returned list is not awaitable
Await(outcome) ==
    IF Raised(outcome) THEN outcome ELSE Raise("TypeError")

\* " OR ".join(product_codes)
JoinOr(product_codes) ==
    IF product_codes = <<>> THEN Some("") ELSE Some(<<"OR", product_codes>>)

\* ChromaDBService.get_news_by_category
get_news_by_category(category, limit, env) ==
    Await(query_recent_news(None, limit, Some([category |-> category]), env))

\* ChromaDBService.search_by_products
search_by_products(product_codes, limit, env) ==
    Await(query_recent_news(JoinOr(product_codes), limit, None, env))

\* ChromaDBService.get_high_risk_news
get_high_risk_news(risk_threshold, limit, env) ==
    Await(query_recent_news(None, limit,
                            Some([risk_score |-> [gte |-> risk_threshold]]), env))

\* the vector store: its collection exists, is missing (and gets created),
\* or the store cannot be reached; its query succeeds or fails
NewsEnvs == [collection : {"exists", "missing", "unreachable"}, query : BOOLEAN]

NewsCategories == {"supply_chain", "competition"}
NewsLimits == {1, 10}
QueryTextInputs == {None, Some(""), Some("strike")}
WhereFilterInputs ==
    {None} \cup {Some([category |-> c]) : c \in NewsCategories}
           \cup {Some([risk_score |-> [gte |-> RiskThreshold]])}

\* the four queries of the service, each on a fresh service
news_queried(query_text, n_results, where_filter, env) ==
    Apply("query_recent_news",
          [query_text |-> query_text, n_results |-> n_results,
           where_filter |-> where_filter, env |-> env],
          query_recent_news(query_text, n_results, where_filter, env))

news_by_category(category, limit, env) ==
    Apply("get_news_by_category",
          [query_text |-> None, n_results |-> limit,
           where_filter |-> Some([category |-> category]), env |-> env],
          get_news_by_category(category, limit, env))

products_searched(product_codes, limit, env) ==
    Apply("search_by_products",
          [query_text |-> JoinOr(product_codes), n_results |-> limit,
           where_filter |-> None, env |-> env],
          search_by_products(product_codes, limit, env))

high_risk_news(risk_threshold, limit, env) ==
    Apply("get_high_risk_news",
          [query_text |-> None, n_results |-> limit,
           where_filter |-> Some([risk_score |-> [gte |-> risk_threshold]]),
           env |-> env],
          get_high_risk_news(risk_threshold, limit, env))

(***************************************************************************)
(* repositories/alert_repository.py under concurrent callers.  A call is   *)
(* a coroutine: it builds its statement, awaits the store, and goes on     *)
(* when the store answers; the store runs one statement at a time, and     *)
(* other callers' statements may run between two statements of one call.   *)
(***************************************************************************)

Idle == [op |-> "idle", pc |-> "idle"]

\* the other callers whose statement is built and not yet run
Overlapping(c) == {d \in Clients \ {c} : inflight[d].pc \in {"built", "severity",
                                                              "type", "latest"}}

\* update_alert builds its UPDATE: the params hold utcnow() of this moment
update_alert_builds(c, alert_id, update) ==
    /\ inflight[c].pc \in {"idle", "done"}
    /\ update.read # None \/ update.read_by # None \/ update.dismissed # None
    /\ inflight' = [inflight EXCEPT ![c] =
                       [op |-> "update_alert", pc |-> "built",
                        alert_id |-> alert_id, update |-> update, t |-> now]]
    /\ UNCHANGED <<alertVars, jobVars, graphVars, legacyVars, outputVars,
                   routeVars, managerVars, applied>>

\* the store runs the UPDATE of caller c
update_alert_runs(c) ==
    /\ inflight[c].op = "update_alert"
    /\ inflight[c].pc = "built"
    /\ LET call == inflight[c]
           r == update_alert(alerts, call.alert_id, call.update, call.t)
       IN  /\ alerts' = r.tbl
           /\ inflight' = [inflight EXCEPT ![c] =
                              [op |-> "update_alert", pc |-> "done",
                               alert_id |-> call.alert_id,
                               update |-> call.update, t |-> call.t,
                               row |-> r.row, overlapped |-> Overlapping(c)]]
    /\ UNCHANGED <<next_id, now, ret, jobVars, graphVars, legacyVars,
                   outputVars, routeVars, managerVars, applied>>

\* the rows `WHERE dismissed = FALSE` selects
Undismissed(tbl) == {id \in DOMAIN tbl : ~tbl[id].dismissed}

\* get_alert_stats: count_query
CountQuery(tbl) ==
    [total |-> Cardinality(Undismissed(tbl)),
     unread |-> Cardinality({id \in Undismissed(tbl) : ~tbl[id].read})]

\* get_alert_stats: severity_query
SeverityQuery(tbl) ==
    [v \in {tbl[id].severity : id \in Undismissed(tbl)} |->
        Cardinality({id \in Undismissed(tbl) : tbl[id].severity = v})]

\* get_alert_stats: type_query
TypeQuery(tbl) ==
    [v \in {tbl[id].alert_type : id \in Undismissed(tbl)} |->
        Cardinality({id \in Undismissed(tbl) : tbl[id].alert_type = v})]

\* get_alert_stats: latest_query
LatestQuery(tbl) ==
    IF Undismissed(tbl) = {} THEN None
    ELSE Some(CHOOSE t \in {tbl[id].created_at : id \in Undismissed(tbl)} :
                 \A id \in Undismissed(tbl) : tbl[id].created_at <= t)

\* get_alert_stats is called: its first statement is next
get_alert_stats_begins(c) ==
    /\ inflight[c].pc \in {"idle", "done"}
    /\ inflight' = [inflight EXCEPT ![c] =
                       [op |-> "get_alert_stats", pc |-> "built"]]
    /\ UNCHANGED <<alertVars, jobVars, graphVars, legacyVars, outputVars,
                   routeVars, managerVars, applied>>

\* the store runs the next statement of get_alert_stats for caller c; after
\* the fourth the call returns its AlertStats
get_alert_stats_runs(c) ==
    /\ inflight[c].op = "get_alert_stats"
    /\ inflight[c].pc # "done"
    /\ LET call == inflight[c]
       IN  inflight' = [inflight EXCEPT ![c] =
              CASE call.pc = "built" ->
                     [op |-> call.op, pc |-> "severity",
                      count_row |-> CountQuery(alerts)]
                [] call.pc = "severity" ->
                     [op |-> call.op, pc |-> "type",
                      count_row |-> call.count_row,
                      by_severity |-> SeverityQuery(alerts)]
                [] call.pc = "type" ->
                     [op |-> call.op, pc |-> "latest",
                      count_row |-> call.count_row,
                      by_severity |-> call.by_severity,
                      by_type |-> TypeQuery(alerts)]
                [] call.pc = "latest" ->
                     [op |-> call.op, pc |-> "done",
                      stats |-> [total_alerts |-> call.count_row.total,
                                 unread_count |-> call.count_row.unread,
                                 by_severity |-> call.by_severity,
                                 by_type |-> call.by_type,
                                 latest_alert |-> LatestQuery(alerts)]]]
    /\ UNCHANGED <<alertVars, jobVars, graphVars, legacyVars, outputVars,
                   routeVars, managerVars, applied>>

\* the alerts created while the callers run
ConcurrentBodies == {mock_alerts(0, 0)[1]}

\* the updates of the callers: mark read, dismiss
ConcurrentUpdates ==
    {AlertUpdate(Some(TRUE), Some("u1"), None), AlertUpdate(None, None, Some(TRUE))}

(***************************************************************************)
(* Specifications.  All start from the empty store.                        *)
(***************************************************************************)
Init ==
    /\ alerts = <<>>
    /\ next_id = 0
    /\ now = 0
    /\ ret = Response("none", NoRequest, "", <<>>)
    /\ db = [w \in Workers |-> "None"]
    /\ task = [state |-> "NONE", retries |-> 0, run |-> 0]
    /\ jobs = 0
    /\ forecasts = <<>>
    /\ actions = <<>>
    /\ gState = State(None)
    /\ gStep = 0
    /\ gTodo = {}
    /\ gRan = {}
    /\ gWrites = <<>>
    /\ gLog = <<>>
    /\ gInvocations = 0
    /\ legacyState = StateDefaults
    /\ legacyEnv = [api_key |-> TRUE, llm |-> TRUE, prophet |-> "ok",
                    promotions |-> 0, competitor_actions |-> 0]
    /\ legacyTodo = {}
    /\ legacyRan = {}
    /\ legacyWrites = <<>>
    /\ legacyLog = <<>>
    /\ legacyStatus = "idle"
    /\ legacyRuns = 0
    /\ outState = OutputState(None, None)
    /\ outTodo = {}
    /\ outRan = {}
    /\ outWrites = <<>>
    /\ outLog = <<>>
    /\ outStatus = "idle"
    /\ outRuns = 0
    /\ results = <<>>
    /\ queue = {}
    /\ revoked = {}
    /\ sentJobs = 0
    /\ dbPool = None
    /\ dbPools = <<>>
    /\ dbCalls = <<>>
    /\ applied = NotApplied
    /\ inflight = [c \in Clients |-> Idle]

\* Spec: creating, flagging and listing alerts
Next ==
    \/ \E d \in TickDays : Tick(d)
    \/ \E alert \in PostBodies : create_alert_route(alert)
    \/ \E q \in ListQueries : get_alerts_route(q)
    \/ \E id \in IdInputs, update \in UpdateInputsFlags : update_alert_route(id, update)
    \/ \E id \in IdInputs : mark_alert_read(id, None)
    \/ \E id \in IdInputs : dismiss_alert(id)

Spec == Init /\ [][Next]_vars

\* SpecUpdate: every partial update of an alert
NextUpdate ==
    \/ \E d \in TickDays : Tick(d)
    \/ \E alert \in PostBodiesOne : create_alert_route(alert)
    \/ \E id \in IdInputs : get_alert_route(id)
    \/ \E id \in IdInputs, update \in UpdateInputs : update_alert_route(id, update)
    \/ \E id \in IdInputs, user_id \in OptUser : mark_alert_read(id, user_id)
    \/ \E id \in IdInputs : dismiss_alert(id)

SpecUpdate == Init /\ [][NextUpdate]_vars

\* SpecCleanup: the retention cleanup, by route and by job
NextCleanup ==
    \/ \E d \in TickDays : Tick(d)
    \/ \E alert \in PostBodies : create_alert_route(alert)
    \/ \E id \in IdInputs : mark_alert_read(id, None)
    \/ \E id \in IdInputs : dismiss_alert(id)
    \/ \E days \in DaysInputs : cleanup_old_alerts_route(days)
    \/ \E days \in DaysInputs, retries \in {0, CeleryDefaultMaxRetries} :
            cleanup_old_alerts_task(days, retries)

SpecCleanup == Init /\ [][NextCleanup]_vars

\* SpecJob: the integrated scheduled-forecast job on its queue
NextJob ==
    \/ beat_run_forecast
    \/ \E w \in Workers : worker_child_replaced(w)
    \/ \E w \in Workers, connects \in BOOLEAN, outcome \in GraphOutcomes :
            run_scheduled_forecast(w, connects, outcome)

SpecJob == Init /\ [][NextJob]_vars

\* SpecGraph: invocations of the data-collection subgraph
NextGraph ==
    \/ \E c \in CollectionInputs : run_data_collection(c)
    \/ \E n \in Nodes : node_finishes(n)
    \/ superstep_ends

SpecGraph == Init /\ [][NextGraph]_vars

\* SpecLegacy: runs of the legacy graph
NextLegacy ==
    \/ \E input \in LegacyInputs, env \in LegacyEnvs : graph_ainvoke(input, env)
    \/ \E n \in LegacyNodes : stage_runs(n)
    \/ legacy_superstep_ends

SpecLegacy == Init /\ [][NextLegacy]_vars

\* SpecLegacyFair: the same runs, with the engine's loop never stopping
\* while a stage is scheduled or a superstep is complete
SpecLegacyFair ==
    /\ Init
    /\ [][NextLegacy]_vars
    /\ WF_vars(\E n \in LegacyNodes : stage_runs(n))
    /\ WF_vars(legacy_superstep_ends)

\* SpecOutput: invocations of the output subgraph
NextOutput ==
    \/ \E f \in AggregatedForecastInputs, d \in AggregatedDataInputs :
            run_output_subgraph(f, d)
    \/ \E n \in OutputNodes : output_node_finishes(n)
    \/ output_superstep_ends

SpecOutput == Init /\ [][NextOutput]_vars

\* SpecRoutes: the job routes and the workers of the task queue
NextRoutes ==
    \/ \E sent \in BOOLEAN : post_forecast_trigger(sent)
    \/ \E segment \in SegmentInputs, limit \in LimitInputs :
            get_forecast(segment, limit)
    \/ \E job_id \in JobIdInputs : post_forecast_cancel(job_id)
    \/ \E job_id \in JobIdInputs : worker_receives(job_id)
    \/ \E job_id \in JobIdInputs, raises \in BOOLEAN : task_ends(job_id, raises)
    \/ \E job_id \in JobIdInputs : worker_terminates(job_id)

SpecRoutes == Init /\ [][NextRoutes]_vars

\* SpecManager: connect and disconnect calls on one connection manager
NextManager ==
    \/ \E created \in BOOLEAN : connect(created)
    \/ disconnect

SpecManager == Init /\ [][NextManager]_vars

\* SpecBatch: process_category_batch on every batch and surroundings
NextBatch ==
    \E batch_index \in 0..1, category_batches \in CategoryBatchInputs,
       env \in BatchEnvs :
        batch_processed(batch_index, category_batches, env)

SpecBatch == Init /\ [][NextBatch]_vars

\* SpecSplit: split_product_batches on every product-code list
NextSplit == \E product_codes \in ProductCodeInputs : products_split(product_codes)

SpecSplit == Init /\ [][NextSplit]_vars

\* SpecScenario: generate_scenarios on every base forecast
NextScenario ==
    \E seasonal_forecast \in SeasonalForecastInputs, env \in LLMEnvs :
        scenarios_generated(seasonal_forecast, env)

SpecScenario == Init /\ [][NextScenario]_vars

\* SpecPromo: analyze_promotional_impact on every dataset
NextPromo ==
    \E historical_data \in PromoDataInputs, env \in LLMEnvs :
        promotions_analysed(historical_data, env)

SpecPromo == Init /\ [][NextPromo]_vars

\* SpecNews: the queries of the ChromaDB service
NextNews ==
    \/ \E query_text \in QueryTextInputs, n_results \in NewsLimits,
          where_filter \in WhereFilterInputs, env \in NewsEnvs :
            news_queried(query_text, n_results, where_filter, env)
    \/ \E category \in NewsCategories, limit \in NewsLimits, env \in NewsEnvs :
            news_by_category(category, limit, env)
    \/ \E product_codes \in {<<>>, <<"INV-001">>, <<"INV-001", "INV-002">>},
          limit \in NewsLimits, env \in NewsEnvs :
            products_searched(product_codes, limit, env)
    \/ \E risk_threshold \in {RiskThreshold, 90}, limit \in NewsLimits,
          env \in NewsEnvs :
            high_risk_news(risk_threshold, limit, env)

SpecNews == Init /\ [][NextNews]_vars

\* SpecConcurrent: repository calls of several callers, interleaved at the
\* store, while alerts are created and a cleanup is requested
NextConcurrent ==
    \/ \E alert \in ConcurrentBodies : create_alert_route(alert)
    \/ cleanup_old_alerts_route(None)
    \/ \E c \in Clients, alert_id \in 1..MaxAlerts, update \in ConcurrentUpdates :
            update_alert_builds(c, alert_id, update)
    \/ \E c \in Clients : update_alert_runs(c)
    \/ \E c \in Clients : get_alert_stats_begins(c)
    \/ \E c \in Clients : get_alert_stats_runs(c)

SpecConcurrent == Init /\ [][NextConcurrent]_vars

(***************************************************************************)
(* Properties of the alert store.                                          *)
(***************************************************************************)

\* a sorts strictly before b under priority_score DESC, created_at DESC
Higher(a, b) ==
    \/ a.priority_score > b.priority_score
    \/ /\ a.priority_score = b.priority_score
       /\ a.created_at > b.created_at

\* a filter value counts as supplied: when given at all (emptyCounts), or
\* only when given and not the empty string
Supplied(opt, emptyCounts) ==
    opt # None /\ (emptyCounts \/ opt[1] # "")

\* the alerts of tbl a listing for q is to choose from
Listable(tbl, q, emptyCounts) ==
    {id \in DOMAIN tbl :
        /\ ~tbl[id].dismissed
        /\ (q.since # None => tbl[id].created_at > q.since[1])
        /\ (Supplied(q.severity, emptyCounts) => tbl[id].severity = q.severity[1])
        /\ (Supplied(q.alert_type, emptyCounts) => tbl[id].alert_type = q.alert_type[1])
        /\ (q.unread_only => ~tbl[id].read)
        /\ (Supplied(q.product_code, emptyCounts) =>
                q.product_code[1] \in Range(tbl[id].affected_products))}

\* rows is the [offset, offset+limit) slice of the ids M in sort order: it
\* has the slice's length, repeats no id, and its i-th row has at most
\* offset+i-1 members of M strictly before it and at least offset+i members
\* not after it
IsSlice(rows, tbl, M, limit, offset) ==
    /\ Range(rows) \subseteq M
    /\ Len(rows) = Min(limit, Max(0, Cardinality(M) - offset))
    /\ \A i, j \in DOMAIN rows : i # j => rows[i] # rows[j]
    /\ \A i \in DOMAIN rows :
        /\ Cardinality({m \in M : Higher(tbl[m], tbl[rows[i]])}) <= offset + i - 1
        /\ Cardinality({m \in M : ~Higher(tbl[rows[i]], tbl[m])}) >= offset + i

\* the routes that end in repo.update_alert
UpdateOps == {"update_alert", "mark_alert_read", "dismiss_alert"}

\* the step is a request served by one of the routes `ops`
Served(ops) == now' = now /\ ret'.op \in ops

\* C1 (as claimed): a listing returns exactly the [offset, offset+limit)
\* slice, in priority_score DESC, created_at DESC order, of the alerts that
\* are not dismissed and satisfy every filter the request supplies.
C1_ListIsSliceOfSupplied ==
    (ret.op = "get_alerts" /\ ret.status = "200") =>
        IsSlice(ret.rows, alerts, Listable(alerts, ret.req, TRUE),
                ret.req.limit, ret.req.offset)

\* C1 (amended): a listing returns exactly the [offset, offset+limit) slice,
\* in priority_score DESC, created_at DESC order, of the alerts that are not
\* dismissed and satisfy every filter the request supplies with a non-empty
\* value; an alert_type or product_code given as the empty string filters
\* nothing.  A dismissed alert is never returned.
C1_ListIsSliceOfNonEmpty ==
    (ret.op = "get_alerts" /\ ret.status = "200") =>
        /\ IsSlice(ret.rows, alerts, Listable(alerts, ret.req, FALSE),
                   ret.req.limit, ret.req.offset)
        /\ \A i \in DOMAIN ret.rows : ~alerts[ret.rows[i]].dismissed

\* a listing filtered by product code has answered with one of two alerts
\* that carry the code, the other one being dismissed
C1_Witness ==
    /\ ret.op = "get_alerts"
    /\ ret.status = "200"
    /\ ret.req.product_code = Some("BUGI-IRIDIUM-VCH20")
    /\ Len(ret.rows) = 1
    /\ Cardinality(DOMAIN alerts) = 2
    /\ \E id \in DOMAIN alerts : alerts[id].dismissed

\* the listing without filters over the widest window shows the alert, and
\* no listing with unread_only does
ShownAsRead(tbl, id) ==
    /\ \A rows \in get_alerts(tbl, [BaseQuery EXCEPT !.limit = LimitMax]) :
            id \in Range(rows)
    /\ \A q \in ListQueries :
            (q.unread_only /\ ListQueryValid(q)) =>
                \A rows \in get_alerts(tbl, q) : id \notin Range(rows)

\* the step is an update of the alert that sets read=false or dismisses it
UnreadsOrDismisses(id) ==
    /\ Served(UpdateOps)
    /\ ret'.req.id = id
    /\ \/ ret'.req.update.read = Some(FALSE)
       \/ ret'.req.update.dismissed = Some(TRUE)

\* C2 (as claimed): mark-read on an alert sets read=true and a non-null
\* read_at, and from then on, as long as no later update sets read=false or
\* dismisses it, the alert is listed with unread_only=false and not with
\* unread_only=true.
C2_MarkReadThenListed ==
    [][\A id \in DOMAIN alerts :
          /\ (Served({"mark_alert_read"}) /\ ret'.req.id = id) =>
                /\ alerts'[id].read
                /\ alerts'[id].read_at # None
                /\ ShownAsRead(alerts', id)
          /\ (alerts[id].read /\ alerts' # alerts /\ ShownAsRead(alerts, id)
                /\ ~UnreadsOrDismisses(id)) =>
                (id \in DOMAIN alerts' /\ ShownAsRead(alerts', id))]_vars

\* C2 (amended): mark-read on an alert sets read=true and a non-null
\* read_at; if the alert is not dismissed at that moment then from then on,
\* as long as no later update sets read=false or dismisses it, it is listed
\* with unread_only=false and not with unread_only=true.  Whether dismissed
\* or not, it is in no listing with unread_only=true once it is marked read.
C2_MarkReadUndismissedThenListed ==
    [][\A id \in DOMAIN alerts :
          /\ (Served({"mark_alert_read"}) /\ ret'.req.id = id) =>
                /\ alerts'[id].read
                /\ alerts'[id].read_at # None
                /\ ~alerts[id].dismissed => ShownAsRead(alerts', id)
                /\ \A q \in ListQueries :
                      (q.unread_only /\ ListQueryValid(q)) =>
                          \A rows \in get_alerts(alerts', q) : id \notin Range(rows)
          /\ (alerts[id].read /\ alerts' # alerts /\ ShownAsRead(alerts, id)
                /\ ~UnreadsOrDismisses(id)) =>
                (id \in DOMAIN alerts' /\ ShownAsRead(alerts', id))]_vars

\* mark-read has answered for an alert that is not dismissed, next to a
\* second alert that is still unread
C2_Witness ==
    /\ ret.op = "mark_alert_read"
    /\ ret.status = "200"
    /\ \E id \in DOMAIN alerts :
          /\ ret.rows = Some(id)
          /\ alerts[id].read
          /\ ~alerts[id].dismissed
          /\ \E other \in DOMAIN alerts : other # id /\ ~alerts[other].read

\* C3 (as claimed): read_at is written by exactly the updates that change
\* read from false to true and dismissed_at by exactly those that change
\* dismissed from false to true; an update that sets the flag to false, or to
\* the value it already has, leaves the timestamp as it was.
C3_StampOnlyOnTransition ==
    [][\A id \in DOMAIN alerts :
          (Served(UpdateOps) /\ ret'.req.id = id) =>
              /\ alerts'[id].read_at =
                    IF ~alerts[id].read /\ alerts'[id].read
                      THEN Some(now) ELSE alerts[id].read_at
              /\ alerts'[id].dismissed_at =
                    IF ~alerts[id].dismissed /\ alerts'[id].dismissed
                      THEN Some(now) ELSE alerts[id].dismissed_at]_vars

\* C3 (amended): read_at is written by exactly the updates that supply
\* read=true, also when read is true already (the timestamp is stamped
\* again), and dismissed_at by exactly those that supply dismissed=true; an
\* update that sets the flag to false or does not supply it leaves the
\* timestamp as it was.  read_at (dismissed_at) turns non-null only in a step
\* that changes read (dismissed) from false to true, is non-null whenever
\* the flag is true, and is never reset.
C3_StampOnEverySetTrue ==
    [][/\ \A id \in DOMAIN alerts :
            /\ id \in DOMAIN alerts'
            /\ alerts'[id].read_at =
                  IF Served(UpdateOps) /\ ret'.req.id = id
                        /\ ret'.req.update.read = Some(TRUE)
                    THEN Some(now) ELSE alerts[id].read_at
            /\ alerts'[id].dismissed_at =
                  IF Served(UpdateOps) /\ ret'.req.id = id
                        /\ ret'.req.update.dismissed = Some(TRUE)
                    THEN Some(now) ELSE alerts[id].dismissed_at
            /\ (alerts[id].read_at = None /\ alerts'[id].read_at # None)
                  => (~alerts[id].read /\ alerts'[id].read)
            /\ (alerts[id].dismissed_at = None /\ alerts'[id].dismissed_at # None)
                  => (~alerts[id].dismissed /\ alerts'[id].dismissed)
            /\ alerts'[id].read => alerts'[id].read_at # None
            /\ alerts'[id].dismissed => alerts'[id].dismissed_at # None
       /\ \A id \in DOMAIN alerts' \ DOMAIN alerts :
            /\ ~alerts'[id].read /\ alerts'[id].read_at = None
            /\ ~alerts'[id].dismissed /\ alerts'[id].dismissed_at = None]_vars

\* an update has answered and left an alert unread and not dismissed with
\* both timestamps still set, while another alert was read later than it was
\* created
C3_Witness ==
    /\ ret.op = "update_alert"
    /\ ret.status = "200"
    /\ \E id \in DOMAIN alerts :
          /\ ret.rows = Some(id)
          /\ ~alerts[id].read /\ alerts[id].read_at # None
          /\ ~alerts[id].dismissed /\ alerts[id].dismissed_at # None
    /\ \E id \in DOMAIN alerts :
          alerts[id].read /\ alerts[id].read_at = Some(MaxNow) /\ alerts[id].created_at = 0

\* the columns of a row
Columns ==
    {"id", "alert_type", "severity", "message", "affected_products",
     "affected_categories", "impact_description", "action_required",
     "created_at", "updated_at", "read", "read_at", "read_by", "dismissed",
     "dismissed_at", "source", "metadata", "priority_score"}

\* the columns an update may write: the supplied fields, and the timestamp
\* paired with read or dismissed
Supplies(update) ==
    (IF update.read # None THEN {"read", "read_at"} ELSE {})
    \cup (IF update.read_by # None THEN {"read_by"} ELSE {})
    \cup (IF update.dismissed # None THEN {"dismissed", "dismissed_at"} ELSE {})

Expired(tbl, t, days) ==
    {id \in DOMAIN tbl : tbl[id].created_at < t - days}

\* C5 (as claimed): a cleanup with `days` removes exactly the alerts created
\* earlier than now minus days, whatever their read or dismissed state, and
\* leaves every other alert unchanged: with days=90 an alert created 91 days
\* ago is deleted.
C5_CleanupRemovesExpired ==
    [][(Served({"cleanup_route"}) /\ ret'.days # None) =>
          /\ DOMAIN alerts' = DOMAIN alerts \ Expired(alerts, now, ret'.days[1])
          /\ \A id \in DOMAIN alerts' : alerts'[id] = alerts[id]]_vars

\* C6 (as claimed): a retention value outside 30..365 days is rejected
\* before the alert repository is reached, whether the cleanup comes through
\* the DELETE endpoint or through the cleanup job.
C6_RetentionInRangeAtRepository ==
    ret.days # None => (ret.days[1] >= DaysMin /\ ret.days[1] <= DaysMax)

\* the step is a delivery of the forecast task that ran the job body (a job
\* id was drawn)
JobRan == jobs' = jobs + 1

\* the step scheduled a retry of the forecast task
Retried == task'.retries = task.retries + 1

\* the graph invocation of the run timed out or raised
GraphFailed(req) == req.outcome.kind \in {"timeout", "exception"}

\* an exception was raised in the body after the graph invocation: while the
\* result was parsed, or by a store call
RaisedAfterGraph(req) ==
    \/ req.failing # 0
    \/ /\ req.outcome.kind = "result"
       /\ LET batches == Get(req.outcome.result.batch_results, <<>>)
          IN  \E b \in DOMAIN batches :
                /\ batches[b] # <<>>
                /\ LET pfs == Get(batches[b].product_forecasts, <<>>)
                   IN  \E k \in DOMAIN pfs : pfs[k].forecast_30d = Some(<<>>)

\* the rows of the three stores are as they were
StoresUnchanged ==
    /\ forecasts' = forecasts
    /\ actions' = actions
    /\ alerts' = alerts

\* C7 (as claimed): any exception raised inside the job body (graph
\* invocation, forecast or action persistence, alert creation) yields a
\* returned status "failed" document with the error message and never a
\* retry; a retry is scheduled only for a failure raised outside the body,
\* and at most 3 retries are made for one job.
C7_BodyExceptionFails ==
    [][/\ JobRan =>
            /\ (GraphFailed(ret'.req) \/ RaisedAfterGraph(ret'.req)) =>
                    /\ ret'.doc[1].status = "failed"
                    /\ ret'.doc[1].error # ""
            /\ ~Retried
            /\ task'.state = "SUCCESS"
       /\ Retried => (~JobRan /\ StoresUnchanged)
       /\ task'.retries <= MaxRetries]_vars

\* C7 (amended): an exception raised inside the job body after the graph
\* invocation (result parsing, forecast or action persistence, alert
\* creation) yields a returned status "failed" document with the error
\* message and never a retry; a timeout or exception of the graph invocation
\* itself is absorbed and does not by itself make the status "failed"; a
\* retry is scheduled only for a failure raised outside the body (opening
\* the database pool), and at most 3 retries are made for one job.
C7_BodyExceptionAfterGraphFails ==
    [][/\ JobRan =>
            /\ ret'.doc[1].status = "failed" <=> RaisedAfterGraph(ret'.req)
            /\ ret'.doc[1].status = "completed" <=> ~RaisedAfterGraph(ret'.req)
            /\ ret'.doc[1].status = "failed" => ret'.doc[1].error # ""
            /\ ret'.doc[1].langgraph_job_id = jobs'
            /\ ~Retried
            /\ task'.state = "SUCCESS"
       /\ Retried =>
            /\ ~JobRan
            /\ StoresUnchanged
            /\ db # db'
            /\ ret'.status = "RETRY"
       /\ (task'.state = "FAILURE" /\ task.state # "FAILURE") =>
            (task.retries = MaxRetries /\ ~JobRan /\ StoresUnchanged)
       /\ task'.retries <= MaxRetries]_vars

\* a run that was retried three times has ended "failed" on a store call
\* that raised while saving an action, after its forecasts were saved
C7_Witness ==
    /\ ret.op = "run_scheduled_forecast"
    /\ task.state = "SUCCESS"
    /\ task.retries = MaxRetries
    /\ ret.doc # None
    /\ ret.doc[1].status = "failed"
    /\ ret.doc[1].error = "create_action"
    /\ Len(forecasts) > 0

\* the rows the step appended to a table kept in insertion order
Added(tbl, tbl2) == SubSeq(tbl2, Len(tbl) + 1, Len(tbl2))

\* the fixed mock products and mock actions of the fallback, as
\* <<key, figure>> pairs
MockProducts == <<<<"BUGI-IRIDIUM-VCH20", 4500>>, <<"AC-COMPRESSOR-6SEU14C", 2800>>>>
MockActions == <<<<"capacity_planning", "high">>, <<"inventory_optimization", "medium">>>>

\* rows is a run's record of the first n mock forecasts, each complete with
\* its 30-point timeseries and its metrics, under the job id
MockForecastRows(rows, n, job_id) ==
    /\ Len(rows) = n
    /\ \A k \in 1..n :
          /\ rows[k].product_code = MockProducts[k][1]
          /\ rows[k].forecast_units = MockProducts[k][2]
          /\ rows[k].langgraph_job_id = job_id
          /\ rows[k].timeseries # None
          /\ Len(rows[k].timeseries[1]) = MockDays
          /\ rows[k].metrics # None

\* rows is a run's record of the first n mock actions under the job id,
\* attached to the run's first forecast
MockActionRows(rows, n, job_id, first_forecast) ==
    /\ Len(rows) = n
    /\ \A k \in 1..n :
          /\ rows[k].action_type = MockActions[k][1]
          /\ rows[k].priority = MockActions[k][2]
          /\ rows[k].langgraph_job_id = job_id
          /\ rows[k].forecast_id = Some(first_forecast)

\* the step created exactly the two fixed alerts, unread and not dismissed
TwoAlertsCreated ==
    LET new == DOMAIN alerts' \ DOMAIN alerts
    IN  /\ Cardinality(new) = 2
        /\ \A id \in DOMAIN alerts : alerts'[id] = alerts[id]
        /\ \E a, b \in new :
              /\ alerts'[a].alert_type = "capacity_warning"
              /\ alerts'[a].severity = "high"
              /\ alerts'[b].alert_type = "demand_spike"
              /\ alerts'[b].severity = "medium"
        /\ \A id \in new : ~alerts'[id].read /\ ~alerts'[id].dismissed

\* C8 (as claimed): if the graph invocation times out or raises, the job
\* does not fail: it persists exactly the two fixed mock forecasts and the
\* two fixed mock actions, creates its alerts and returns status
\* "completed".
C8_GraphFailureCompletes ==
    [][(JobRan /\ GraphFailed(ret'.req)) =>
          /\ ret'.doc[1].status = "completed"
          /\ MockForecastRows(Added(forecasts, forecasts'), 2, jobs')
          /\ MockActionRows(Added(actions, actions'), 2, jobs', Len(forecasts) + 1)
          /\ TwoAlertsCreated]_vars

\* C8 (amended): if the graph invocation times out or raises, the job does
\* not fail for that reason: it goes on with the two fixed mock forecasts and
\* the two fixed mock actions, and when no store call raises it persists
\* exactly those, creates its two alerts and returns status "completed".
\* When a store call raises on the way the job returns "failed", having
\* persisted a leading part of the mock payload and nothing else.
C8_GraphFailureFallsBack ==
    [][(JobRan /\ GraphFailed(ret'.req)) =>
          /\ ret'.req.failing = 0 =>
                /\ ret'.doc[1].status = "completed"
                /\ ret'.doc[1].forecasts_saved = 2
                /\ ret'.doc[1].actions_saved = 2
                /\ ret'.doc[1].alerts_generated = 2
                /\ MockForecastRows(Added(forecasts, forecasts'), 2, jobs')
                /\ MockActionRows(Added(actions, actions'), 2, jobs',
                                  Len(forecasts) + 1)
                /\ TwoAlertsCreated
          /\ ret'.req.failing # 0 =>
                /\ ret'.doc[1].status = "failed"
                /\ Len(Added(forecasts, forecasts')) <= 2
                /\ \A k \in DOMAIN Added(forecasts, forecasts') :
                      Added(forecasts, forecasts')[k].product_code = MockProducts[k][1]
                /\ \E n \in 0..2 :
                      MockActionRows(Added(actions, actions'), n, jobs',
                                     Len(forecasts) + 1)
                /\ Cardinality(DOMAIN alerts' \ DOMAIN alerts) <= 1]_vars

\* a run whose graph invocation timed out has returned "completed" after an
\* earlier run of the queue, its two mock forecasts stored behind that run's
C8_Witness ==
    /\ ret.op = "run_scheduled_forecast"
    /\ ret.doc # None
    /\ ret.req.outcome.kind = "timeout"
    /\ ret.doc[1].status = "completed"
    /\ ret.doc[1].langgraph_job_id = 2
    /\ ret.doc[1].forecasts_saved = 2
    /\ Len(forecasts) > 2
    /\ forecasts[Len(forecasts)].langgraph_job_id = 2

\* C9 (as claimed): a run that returns status "completed" has created
\* exactly two alerts (a high capacity warning and a medium demand spike,
\* unread and not dismissed), and the metadata of each carries the run's job
\* id.
C9_CompletedRunTagsBothAlerts ==
    [][(JobRan /\ ret'.doc[1].status = "completed") =>
          /\ TwoAlertsCreated
          /\ \A id \in DOMAIN alerts' \ DOMAIN alerts :
                /\ "langgraph_job_id" \in DOMAIN alerts'[id].metadata
                /\ alerts'[id].metadata.langgraph_job_id = jobs']_vars

\* the step is the aggregation node finishing
AggregateFinishes == gLog' = Append(gLog, "aggregate_data")

\* C10 (as claimed): in every invocation of the data-collection subgraph,
\* under every scheduling, the aggregation step runs only after the
\* internal-data fetch, the supply-chain fetch and the whole ingest, clean,
\* store pipeline have completed, so the state it reads has the cleaned
\* external data and the stored count.
C10_AggregateAfterAllBranches ==
    [][AggregateFinishes =>
          /\ {"fetch_internal", "fetch_supply_chain", "ingest_external",
              "clean_external", "store_external"} \subseteq Range(gLog)
          /\ gState.cleaned_external_data # None
          /\ gState.total_stored = ExternalDocs]_vars

(***************************************************************************)
(* Properties of the legacy graph.                                         *)
(***************************************************************************)

\* s is an initial segment of t
IsPrefix(s, t) == Len(s) <= Len(t) /\ SubSeq(t, 1, Len(s)) = s

\* the full chain of stages, through the seasonal forecast
SeasonalPath ==
    <<"load_data", "pattern_recognition", "seasonal_forecast",
      "promotional_analysis", "promotional_demand", "competitor_analysis",
      "competitor_adjustment", "supply_chain", "scenario_planning",
      "realtime_adjustment">>

\* the chain through the new-product forecaster
NewProductPath ==
    <<"load_data", "pattern_recognition", "new_product_forecast",
      "supply_chain", "scenario_planning", "realtime_adjustment">>

\* C11 (as claimed): in the legacy graph the stages of a run with
\* forecast_mode "new_product" and a new_product_id go from pattern
\* recognition to the new-product forecaster and from there to supply
\* chain; the stages of a run with any other mode, "promotional" included,
\* run in the order load, pattern recognition, seasonal forecast,
\* promotional analysis, promotional demand, competitor analysis,
\* competitor adjustment, supply chain, scenario planning, real-time
\* adjustment.
C11_StagesRunInOrder ==
    legacyStatus # "idle" =>
        IF legacyState.forecast_mode = "new_product"
           /\ legacyState.new_product_id # ""
        THEN IsPrefix(legacyLog, NewProductPath)
        ELSE IsPrefix(legacyLog, SeasonalPath)

\* C12 (as claimed): no stage lets an exception escape; whatever the input
\* supplies or lacks and whichever external capability fails (model fit,
\* hosted LLM, missing API-key configuration), the stage returns a result
\* or an error document and the run goes on, so no run ends with an
\* exception.
C12_NoStageRaises == legacyStatus # "raised"

\* no stage occurs twice in the log
EachStageAtMostOnce(log) ==
    \A i, j \in DOMAIN log : log[i] = log[j] => i = j

\* C13 (as claimed): every run of the legacy graph, for every forecast_mode
\* and every input document, terminates with a result: it returns its
\* state, each stage has executed at most once, and the stage that ran last
\* is real-time adjustment.
C13_RunTerminatesWithResult ==
    [](legacyStatus = "running" =>
          <>(/\ legacyStatus = "returned"
             /\ EachStageAtMostOnce(legacyLog)
             /\ legacyLog # <<>>
             /\ legacyLog[Len(legacyLog)] = "realtime_adjustment"))

\* the stages that read the seasonal-forecast slot, and the slot each writes
DownstreamSlot ==
    [promotional_demand |-> "promotional_demand",
     competitor_adjustment |-> "competitor_adjusted_forecast",
     supply_chain |-> "supply_chain_optimization",
     scenario_planning |-> "scenario_planning",
     realtime_adjustment |-> "realtime_adjustment"]

\* the error documents the seasonal forecast can leave in its slot
SeasonalErrors ==
    {[error |-> e, forecast |-> None] :
        e \in {"No historical data available", "Empty dataset",
               "Insufficient data (need at least 30 records)",
               "Forecast generation failed"}}

\* the document is an error document and nothing else
OnlyError(slot) == slot # None /\ DOMAIN slot[1] = {"error"}

\* C14: whatever else the state holds, every stage downstream of the
\* seasonal forecast (promotional demand, competitor adjustment, supply
\* chain, scenario planning, real-time adjustment) returns the same update
\* when the seasonal-forecast slot holds an error document as when the
\* slot is absent: an error document for its own slot and nothing computed
\* from the upstream document.
C14_UpstreamErrorAsAbsent ==
    \A n \in DOMAIN DownstreamSlot, e \in SeasonalErrors :
        LET absent == StageReturns(n, [legacyState EXCEPT !.seasonal_forecast = None],
                                   legacyEnv)
            failed == StageReturns(n, [legacyState EXCEPT !.seasonal_forecast = Some(e)],
                                   legacyEnv)
        IN  /\ failed = absent
            /\ DOMAIN failed = {DownstreamSlot[n]}
            /\ OnlyError(failed[DownstreamSlot[n]])

\* a run has returned in which the seasonal forecast left an error document
\* and the five downstream stages ran after it
C14_Witness ==
    /\ legacyStatus = "returned"
    /\ legacyState.seasonal_forecast \in {Some(e) : e \in SeasonalErrors}
    /\ \A n \in DOMAIN DownstreamSlot :
          /\ n \in Range(legacyLog)
          /\ OnlyError(legacyState[DownstreamSlot[n]])

(***************************************************************************)
(* Properties of the output subgraph.                                      *)
(***************************************************************************)

\* the steps that must have completed before a step starts
MustPrecede ==
    [analyze_capacity |-> {},
     generate_suggestions |-> {"analyze_capacity"},
     generate_alerts |-> {"analyze_capacity"},
     build_message |-> {"generate_suggestions", "generate_alerts"},
     send_notification |-> {"build_message"}]

\* C15: in every execution of the output subgraph a step is started only
\* after the steps before it have completed (capacity analysis before
\* suggestions and alerts, both of those before message building, message
\* building before sending), no step runs twice, and the execution returns
\* with each of the five steps run.
C15_OutputStepsInOrder ==
    /\ \A n \in outTodo : MustPrecede[n] \subseteq Range(outLog)
    /\ \A i \in DOMAIN outLog :
          MustPrecede[outLog[i]] \subseteq {outLog[j] : j \in 1..(i - 1)}
    /\ EachStageAtMostOnce(outLog)
    /\ outStatus = "returned" => Range(outLog) = OutputNodes

\* an execution has returned in which the alerts finished before the
\* suggestions
C15_Witness ==
    /\ outStatus = "returned"
    /\ Len(outLog) = 5
    /\ outLog[2] = "generate_alerts"
    /\ outState.notification_sent

\* the capacity analysis of the execution, once capacity analysis has run
Analysed == outState.capacity_analysis # None

\* the total forecast units the caller passed
ForecastUnits ==
    DictGet(Or(outState.aggregated_forecasts, <<>>), "total_forecast_units", 0)

\* the forecast is exactly, or above, 85% of the reported quarterly capacity
AtThreshold(ca) ==
    ca.total_forecast_q1 * 100 = ca.total_capacity_q1 * ConstrainedPercent
AboveThreshold(ca) ==
    ca.total_forecast_q1 * 100 > ca.total_capacity_q1 * ConstrainedPercent

\* C16 (as claimed): with capacity greater than 0, a total forecast of
\* exactly 85% of total quarterly capacity is reported "sufficient", and any
\* total forecast strictly above 85% is reported "constrained".
C16_ThresholdIsSufficient ==
    Analysed =>
        LET ca == outState.capacity_analysis[1]
        IN  ca.total_capacity_q1 > 0 =>
               /\ AtThreshold(ca) => ca.capacity_status = "sufficient"
               /\ AboveThreshold(ca) => ca.capacity_status = "constrained"

\* C16 (amended): with capacity greater than 0, a total forecast of exactly
\* 85% of total quarterly capacity, like any forecast above it, is reported
\* "constrained"; only a forecast strictly below 85% is reported
\* "sufficient".
C16_ThresholdIsConstrained ==
    Analysed =>
        LET ca == outState.capacity_analysis[1]
        IN  /\ ca.total_forecast_q1 = ForecastUnits
            /\ ca.total_capacity_q1 > 0 =>
                  IF AtThreshold(ca) \/ AboveThreshold(ca)
                  THEN ca.capacity_status = "constrained"
                  ELSE ca.capacity_status = "sufficient"

\* capacity analysis has run on a forecast of exactly 85% of a capacity
\* greater than 0
C16_Witness ==
    /\ "analyze_capacity" \in Range(outLog)
    /\ Analysed
    /\ outState.capacity_analysis[1].total_capacity_q1 > 0
    /\ AtThreshold(outState.capacity_analysis[1])

\* C17 (as claimed): for every set of forecasts and production lines, zero
\* total capacity included (where utilization_rate is reported as 0), the
\* reported capacity_status is "constrained" if and only if the reported
\* utilization_rate is at least 0.85, and "sufficient" otherwise.
C17_StatusFollowsUtilization ==
    Analysed =>
        LET ca == outState.capacity_analysis[1]
        IN  IF RatioAtLeast(ca.utilization_rate, ConstrainedPercent, 100)
            THEN ca.capacity_status = "constrained"
            ELSE ca.capacity_status = "sufficient"

(***************************************************************************)
(* Properties of the job routes.                                           *)
(***************************************************************************)

\* the response in ret answers GET /jobs/forecast/history
HistoryRequested(r) ==
    /\ r.op \in {"get_job_status", "get_job_history"}
    /\ r.req.method = "GET"
    /\ r.req.path = <<Word("forecast"), Word("history")>>

\* C18 (as claimed): every GET /jobs/forecast/history, whatever its limit,
\* is answered 200 with the stub document: no jobs, total 0 and the
\* "Job history tracking not yet implemented" message.
C18_HistoryAnswersStub ==
    HistoryRequested(ret) =>
        /\ ret.status = 200
        /\ ret.body = [jobs |-> <<>>, total |-> 0,
                       message |-> "Job history tracking not yet implemented"]

\* a step that serves GET /jobs/forecast/<job id>
StatusQueried == ret'.op = "get_job_status" /\ UNCHANGED routeVars

\* the status document follows the state the result backend holds
FollowsQueue(body, job_id) ==
    LET state == TaskState(results, job_id)
    IN  /\ body.job_id = job_id
        /\ body.status = state
        /\ state = "PENDING" => body.message = "Job is pending execution"
        /\ state = "STARTED" => "progress" \in DOMAIN body
        /\ state = "SUCCESS" => body.result = TaskInfo(results, job_id)
        /\ state = "FAILURE" =>
              body.error = Some(TaskInfo(results, job_id)[1].exception)
        /\ state = "RETRY" => "retry_count" \in DOMAIN body

\* C19 (as claimed): a trigger the broker takes is answered 202 with the new
\* job id; a status query of a job no worker has picked up reports PENDING
\* with "Job is pending execution"; afterwards the query reports the queue's
\* state: STARTED with a progress, SUCCESS with the result, FAILURE with the
\* error text, RETRY with a retry count.
C19_StatusFollowsQueue ==
    [][/\ sentJobs' # sentJobs =>
            /\ ret'.status = 202
            /\ ret'.body.job_id = Uuid(sentJobs')
            /\ TaskState(results', ret'.body.job_id) = "PENDING"
       /\ StatusQueried =>
            /\ ret'.status = 200
            /\ FollowsQueue(ret'.body, ret'.req.path[2])]_vars

\* C19, every state but RETRY: the part of the claim the code keeps
C19_StatusFollowsQueueUnlessRetry ==
    [][/\ sentJobs' # sentJobs =>
            /\ ret'.status = 202
            /\ ret'.body.job_id = Uuid(sentJobs')
            /\ TaskState(results', ret'.body.job_id) = "PENDING"
       /\ (StatusQueried /\ TaskState(results, ret'.req.path[2]) # "RETRY") =>
            /\ ret'.status = 200
            /\ FollowsQueue(ret'.body, ret'.req.path[2])]_vars

\* a step that serves POST /jobs/forecast/<job id>/cancel
CancelServed == ret'.op = "cancel_job" /\ UNCHANGED <<results, queue, sentJobs>>

\* C20: a cancel issues a revoke only when the job's state is PENDING or
\* STARTED; for SUCCESS, FAILURE and RETRY it issues none and reports that
\* the job cannot be cancelled, naming the state.
C20_CancelRevokesOnlyLive ==
    [][CancelServed =>
          LET job_id == ret'.req.path[2]
              state == TaskState(results, job_id)
          IN  /\ revoked' # revoked => state \in {"PENDING", "STARTED"}
              /\ state \in {"PENDING", "STARTED"} =>
                    /\ job_id \in revoked'
                    /\ ret'.body.status = "cancelled"
              /\ state \in {"SUCCESS", "FAILURE", "RETRY"} =>
                    /\ revoked' = revoked
                    /\ ret'.body.status = state
                    /\ ret'.body.message =
                          <<"Job cannot be cancelled (current state:", state>>]_vars

\* a cancel of a job waiting for its retry was refused, after the cancel of
\* another job was taken
C20_Witness ==
    /\ ret.op = "cancel_job"
    /\ ret.body.status = "RETRY"
    /\ TaskState(results, ret.req.path[2]) = "RETRY"
    /\ ret.req.path[2] \notin revoked
    /\ revoked # {}

(***************************************************************************)
(* Properties of the connection manager.                                   *)
(***************************************************************************)

\* the calls that returned, in order
ReturnedCalls == SelectSeq(dbCalls, LAMBDA c : c # "connect raised")

\* the pools that are open
OpenPools == {i \in DOMAIN dbPools : dbPools[i] = "open"}

\* C21: for any sequence of connect and disconnect calls, a connect while a
\* pool is open creates no second pool, a disconnect while no pool is open
\* does nothing, after every call a pool is open exactly when the most
\* recent call that returned was a connect, and every pool ever created is
\* closed by the next disconnect: the open pools are the one the manager
\* holds.
C21_ConnectDisconnectIdempotent ==
    /\ []((dbPool # None) <=>
            (/\ ReturnedCalls # <<>>
             /\ ReturnedCalls[Len(ReturnedCalls)] = "connect"))
    /\ [](OpenPools = Range(dbPool))
    /\ [][/\ (dbPool # None /\ Len(dbCalls') > Len(dbCalls)
              /\ dbCalls'[Len(dbCalls')] = "connect") =>
                 UNCHANGED <<dbPool, dbPools>>
          /\ (dbPool = None /\ Len(dbCalls') > Len(dbCalls)
              /\ dbCalls'[Len(dbCalls')] = "disconnect") =>
                 UNCHANGED <<dbPool, dbPools>>]_vars

\* two pools were created and closed, and a connect and a disconnect found
\* nothing to do
C21_Witness ==
    /\ Len(dbPools) = 2
    /\ OpenPools = {}
    /\ \E i \in 1..(Len(dbCalls) - 1) :
          dbCalls[i] = "connect" /\ dbCalls[i + 1] = "connect"
    /\ \E i \in 1..(Len(dbCalls) - 1) :
          dbCalls[i] = "disconnect" /\ dbCalls[i + 1] = "disconnect"

(***************************************************************************)
(* Properties of the category batch.                                       *)
(***************************************************************************)

\* how many times a call occurs in a log of calls
Count(calls, name) == Cardinality({i \in DOMAIN calls : calls[i] = name})

\* process_category_batch ran on a batch that exists
BatchProcessed ==
    /\ applied.fn = "process_category_batch"
    /\ applied.input.batch_index < Len(applied.input.category_batches)

\* C22: processing one category batch, whatever the number of its products,
\* invokes the category-level context retrieval exactly once and the
\* category-level LLM analysis exactly once, and the fused data of every
\* product of the batch carry the identical category insight.  A batch
\* whose retrieval or analysis raises makes neither call a second time.
C22_CategoryCallsOnce ==
    BatchProcessed =>
        LET out == applied.output
        IN  /\ Count(out.calls, "retrieve_category_context") = 1
            /\ Count(out.calls, "analyze_category_with_api") <= 1
            /\ ~Raised(out.ret) =>
                  /\ Count(out.calls, "analyze_category_with_api") = 1
                  /\ \A i, j \in DOMAIN out.fused :
                        out.fused[i].market_insight = out.fused[j].market_insight
                  /\ \A i \in DOMAIN out.fused :
                        out.fused[i].market_insight =
                            out.ret.shared_category_insight

\* a batch of two products was processed to the end
C22_Witness ==
    /\ BatchProcessed
    /\ ~Raised(applied.output.ret)
    /\ Len(applied.output.fused) = 2
    /\ applied.output.fused[1].product_code # applied.output.fused[2].product_code
    /\ Count(applied.output.calls, "generate_category_forecast") = 2

(***************************************************************************)
(* Properties of the legacy split.                                         *)
(***************************************************************************)

\* the concatenation of a sequence of sequences
RECURSIVE Concat(_)
Concat(seqs) == IF seqs = <<>> THEN <<>> ELSE Head(seqs) \o Concat(Tail(seqs))

\* split_product_batches ran on a non-empty list
SplitNonEmpty == applied.fn = "split_product_batches" /\ applied.input # <<>>

\* the batches are contiguous and in order: their concatenation is the
\* input, so each code of the list is in exactly one batch
SplitIsPartition == Concat(applied.output.product_batches) = applied.input

FlatBasePlanned ==
    /\ applied.fn = "generate_scenarios"
    /\ applied.input.seasonal_forecast # None
    /\ applied.input.seasonal_forecast[1].forecast_values # <<>>
    /\ \A i \in DOMAIN applied.input.seasonal_forecast[1].forecast_values :
          applied.input.seasonal_forecast[1].forecast_values[i] = 100
    /\ ~Raised(applied.output)

\* the expected forecast, in hundredths, is v at every point
ExpectedIs(v) ==
    LET planning == applied.output.scenario_planning[1]
    IN  /\ DOMAIN planning.expected_forecast =
              DOMAIN applied.input.seasonal_forecast[1].forecast_values
        /\ \A i \in DOMAIN planning.expected_forecast :
              planning.expected_forecast[i] = v

\* C24 (as claimed): for a flat base forecast of 100 at every horizon point
\* the expected-forecast series (optimistic at multiplier 1.2 and
\* probability 0.2, realistic at 1.0 and 0.5, pessimistic at 0.8 and 0.3)
\* equals 104 at every point.
C24_ExpectedIs104 == FlatBasePlanned => ExpectedIs(10400)

\* C24: for a flat base forecast of 100 at every horizon point the
\* expected-forecast series equals 98 at every point
\* (120 x 0.2 + 100 x 0.5 + 80 x 0.3), whether or not the LLM call succeeds.
C24_ExpectedIs98 == FlatBasePlanned => ExpectedIs(9800)

\* a flat base forecast of three points was planned
C24_Witness ==
    /\ FlatBasePlanned
    /\ Len(applied.input.seasonal_forecast[1].forecast_values) = 3
    /\ Len(applied.output.scenario_planning[1].expected_forecast) = 3
    /\ applied.output.scenario_planning[1].scenarios.optimistic.forecast[1] = 12000

(***************************************************************************)
(* Properties of promotional analysis.                                     *)
(***************************************************************************)

\* promotional analysis returned for a dataset with promotional days
PromoAnalysed ==
    /\ applied.fn = "analyze_promotional_impact"
    /\ applied.input.historical_data # None
    /\ "promotion" \in applied.input.historical_data[1].columns
    /\ applied.input.historical_data[1].promo_days > 0
    /\ ~Raised(applied.output)

\* the predicted lift is the historical lift, times 0.8 when promotional
\* days exceed 20% of all days
DiscountedLift ==
    LET df == applied.input.historical_data[1]
        analysis == applied.output.promotional_analysis[1]
        historical == analysis.historical_stats.lift_percentage
    IN  analysis.predicted_lift_percentage =
            IF df.promo_days * 5 > df.records
            THEN RoundDiv(historical * 8, 10) ELSE historical

\* C25 (as claimed): for every dataset with at least one promotional day the
\* predicted lift is 0.8 times the historical lift when promotional days
\* exceed 20% of all days and the historical lift otherwise, whether the
\* LLM narrative call succeeds or fails.
C25_DiscountWhateverLLM == PromoAnalysed => DiscountedLift

\* C25, when the LLM call succeeds: the part of the claim the code keeps
C25_DiscountWhenLLMSucceeds ==
    (PromoAnalysed /\ applied.input.env.llm) => DiscountedLift

(***************************************************************************)
(* Properties of the ChromaDB service.                                     *)
(***************************************************************************)

NewsQueries ==
    {"query_recent_news", "get_news_by_category", "search_by_products",
     "get_high_risk_news"}

\* C26 (as claimed): query_recent_news and the helpers built on it never
\* raise: each helper returns exactly what query_recent_news returns for
\* its filter or query text, and on any vector-store error, a failure to
\* obtain the collection included, the result is an empty list.
C26_NewsQueriesNeverRaise ==
    applied.fn \in NewsQueries =>
        /\ ~Raised(applied.output)
        /\ applied.output =
              query_recent_news(applied.input.query_text, applied.input.n_results,
                                applied.input.where_filter, applied.input.env)
        /\ (applied.input.env.collection = "unreachable" \/ ~applied.input.env.query)
              => applied.output = Returns(<<>>)

\* C26, for query_recent_news on a store that can be reached: the part of
\* the claim the code keeps
C26_QueryReturnsWhenReachable ==
    (applied.fn = "query_recent_news"
     /\ applied.input.env.collection # "unreachable") =>
        /\ ~Raised(applied.output)
        /\ ~applied.input.env.query => applied.output = Returns(<<>>)

\* C27 (as claimed): a run of the scheduled-forecast job that returns status
\* "failed" has left no forecast, action or alert of that run in the
\* stores: the persistence of one run's records is all-or-nothing, also
\* when the failure comes after some of them were written.
C27_FailedRunLeavesNothing ==
    [][(JobRan /\ ret'.doc[1].status = "failed") => StoresUnchanged]_vars

\* C27, for a run that fails before its first store call returns: the part
\* of the claim the code keeps
C27_FailedAtFirstCallLeavesNothing ==
    [][(JobRan /\ ret'.doc[1].status = "failed" /\ ret'.req.failing <= 1)
          => StoresUnchanged]_vars

\* C30 (as claimed): a worker task never runs its body against a connection
\* manager that has no open pool: after a failed opening of the pool the
\* next access, the queue retry of the same task included, opens the pool
\* again, so a run of the body finds the worker's manager with a pool.
C30_BodyNeverRunsWithoutPool ==
    [][JobRan => (/\ db[ret'.req.worker] # "NoPool"
                  /\ db'[ret'.req.worker] = "Pool")]_vars

\* C30, on a worker whose first opening of the pool succeeded: the part of
\* the claim the code keeps
C30_BodyRunsWithPoolAfterConnect ==
    [][(JobRan /\ db[ret'.req.worker] # "NoPool")
          => db'[ret'.req.worker] = "Pool"]_vars

(***************************************************************************)
(* Properties of concurrent repository calls.                              *)
(***************************************************************************)

MarkRead == AlertUpdate(Some(TRUE), Some("u1"), None)

Dismiss == AlertUpdate(None, None, Some(TRUE))

\* caller c's last call was this update of alert_id, and it found the row
Updated(c, alert_id, update) ==
    /\ inflight[c].op = "update_alert"
    /\ inflight[c].pc = "done"
    /\ inflight[c].alert_id = alert_id
    /\ inflight[c].update = update
    /\ inflight[c].row = Some(alert_id)

\* C28: when a mark-read and a dismiss of the same alert by two callers have
\* both run, in whatever order their statements were built and run, the row
\* is read with read_at and read_by as the mark-read set them and dismissed
\* with dismissed_at as the dismiss set it
C28_DisjointUpdatesBothTakeEffect ==
    \A c, d \in Clients, alert_id \in 1..MaxAlerts :
        Updated(c, alert_id, MarkRead) /\ Updated(d, alert_id, Dismiss) =>
            /\ alerts[alert_id].read
            /\ alerts[alert_id].read_at = Some(inflight[c].t)
            /\ alerts[alert_id].read_by = Some("u1")
            /\ alerts[alert_id].dismissed
            /\ alerts[alert_id].dismissed_at = Some(inflight[d].t)

\* a mark-read and a dismiss of one alert have both run, and one of them ran
\* while the statement of the other was built and waiting
C28_Witness ==
    \E c, d \in Clients, alert_id \in 1..MaxAlerts :
        /\ Updated(c, alert_id, MarkRead)
        /\ Updated(d, alert_id, Dismiss)
        /\ c \in inflight[d].overlapped \/ d \in inflight[c].overlapped
        /\ alerts[alert_id].read
        /\ alerts[alert_id].dismissed

RECURSIVE SumValues(_)
SumValues(f) ==
    IF DOMAIN f = {} THEN 0
    ELSE LET k == CHOOSE k \in DOMAIN f : TRUE
         IN  f[k] + SumValues([x \in DOMAIN f \ {k} |-> f[x]])

\* caller c's last call was get_alert_stats, and it returned
StatsReturned(c) ==
    inflight[c].op = "get_alert_stats" /\ inflight[c].pc = "done"

\* the counts of one AlertStats agree with each other
ConsistentStats(stats) ==
    /\ SumValues(stats.by_severity) = stats.total_alerts
    /\ SumValues(stats.by_type) = stats.total_alerts
    /\ stats.unread_count <= stats.total_alerts

\* C29: every AlertStats returned, whatever ran between its statements, has
\* by-severity counts and by-type counts that sum to its total and an unread
\* count no larger than its total
C29_StatsIsSnapshot ==
    \A c \in Clients : StatsReturned(c) => ConsistentStats(inflight[c].stats)

\* the unread count and the total come from one statement: they agree
C29_UnreadWithinTotal ==
    \A c \in Clients :
        StatsReturned(c) =>
            inflight[c].stats.unread_count <= inflight[c].stats.total_alerts

====
